---- MODULE Spec2Model ----
(***************************************************************************)
(* html-to-design-plugin: the Capture stage (HTMLParser, the browser       *)
(* extension's captureDOM), the style value translators (css.ts, color.ts) *)
(* and the FigmaMapper traversal driven by the plugin controller.          *)
(*                                                                         *)
(* A JavaScript string is the tuple of its characters, so that trim,       *)
(* startsWith, endsWith, parseFloat and the regular expressions of the     *)
(* source are computed character by character.  A JavaScript number is an  *)
(* exact fraction [n, d] in lowest terms with d > 0; NaN is [n=0, d=0].    *)
(* An absent (undefined) string is the empty tuple: the source only tests  *)
(* such values for truthiness.                                             *)
(***************************************************************************)
EXTENDS Integers, Sequences, FiniteSets, TLC

\* ------------------------------------------------------------ strings ----

Whitespace == {" ", "\n", "\t"}

RECURSIVE TrimStart(_)
TrimStart(s) ==
  IF s # <<>> /\ Head(s) \in Whitespace THEN TrimStart(Tail(s)) ELSE s

RECURSIVE TrimEnd(_)
TrimEnd(s) ==
  IF s # <<>> /\ s[Len(s)] \in Whitespace
    THEN TrimEnd(SubSeq(s, 1, Len(s) - 1))
    ELSE s

\* String.prototype.trim
Trim(s) == TrimEnd(TrimStart(s))

StartsWith(s, p) == Len(s) >= Len(p) /\ SubSeq(s, 1, Len(p)) = p

EndsWith(s, p) == Len(s) >= Len(p) /\ SubSeq(s, Len(s) - Len(p) + 1, Len(s)) = p

\* the 1-based positions at which p occurs in s
Occurrences(s, p) ==
  {j \in 1..(Len(s) - Len(p) + 1) : SubSeq(s, j, j + Len(p) - 1) = p}

SetMin(S) == CHOOSE x \in S : \A y \in S : x <= y

Includes(s, p) == Occurrences(s, p) # {}

\* String.prototype.replace with a string pattern: the first occurrence only
ReplaceAt(s, j, len, q) == SubSeq(s, 1, j - 1) \o q \o SubSeq(s, j + len, Len(s))

Leftmost(hits) == IF hits = {} THEN 0 ELSE SetMin(hits)

ReplaceFound(s, j, len, q) == IF j = 0 THEN s ELSE ReplaceAt(s, j, len, q)

ReplaceFirst(s, p, q) == ReplaceFound(s, Leftmost(Occurrences(s, p)), Len(p), q)

\* the characters of s from position a to position b, clipped to the string
Slice(s, a, b) ==
  LET lo == IF a < 1 THEN 1 ELSE a
      hi == IF b > Len(s) THEN Len(s) ELSE b
  IN IF lo > hi THEN <<>> ELSE SubSeq(s, lo, hi)

\* String.prototype.substring(a, b), 0-based, end exclusive
Substring(s, a, b) ==
  SubSeq(s, a + 1, IF b < Len(s) THEN b ELSE Len(s))

UpperLetters == <<"A","B","C","D","E","F","G","H","I","J","K","L","M","N","O","P","Q","R","S","T","U","V","W","X","Y","Z">>

LowerLetters == <<"a","b","c","d","e","f","g","h","i","j","k","l","m","n","o","p","q","r","s","t","u","v","w","x","y","z">>

IsUpper(c) == \E i \in 1..26 : UpperLetters[i] = c

LowerChar(c) ==
  IF IsUpper(c)
    THEN LowerLetters[CHOOSE i \in 1..26 : UpperLetters[i] = c]
    ELSE c

\* String.prototype.toLowerCase
ToLowerCase(s) == [i \in 1..Len(s) |-> LowerChar(s[i])]

RECURSIVE JoinWith(_, _)
\* Array.prototype.join
JoinWith(parts, sep) ==
  IF parts = <<>> THEN <<>>
  ELSE IF Len(parts) = 1 THEN parts[1]
  ELSE parts[1] \o sep \o JoinWith(Tail(parts), sep)

\* ------------------------------------------------------------ numbers ----

Abs(i) == IF i < 0 THEN -i ELSE i

RECURSIVE GCD(_, _)
GCD(a, b) == IF b = 0 THEN a ELSE GCD(b, a % b)

NaN == [n |-> 0, d |-> 0]

IsNaN(x) == x.d = 0

Reduced(n, d, g) ==
  IF d < 0 THEN [n |-> (-n) \div g, d |-> (-d) \div g] ELSE [n |-> n \div g, d |-> d \div g]

Frac(n, d) == IF d = 0 THEN NaN ELSE Reduced(n, d, GCD(Abs(n), Abs(d)))

Num(i) == [n |-> i, d |-> 1]

Plus(a, b) ==
  IF IsNaN(a) \/ IsNaN(b) THEN NaN ELSE Frac(a.n * b.d + b.n * a.d, a.d * b.d)

Minus(a, b) ==
  IF IsNaN(a) \/ IsNaN(b) THEN NaN ELSE Frac(a.n * b.d - b.n * a.d, a.d * b.d)

Times(a, b) ==
  IF IsNaN(a) \/ IsNaN(b) THEN NaN ELSE Frac(a.n * b.n, a.d * b.d)

\* a / b; a division by zero, which the source never performs on the modelled
\* inputs, is NaN here
Over(a, b) ==
  IF IsNaN(a) \/ IsNaN(b) THEN NaN ELSE Frac(a.n * b.d, a.d * b.n)

\* a < b; every comparison with NaN is false
Less(a, b) == ~IsNaN(a) /\ ~IsNaN(b) /\ a.n * b.d < b.n * a.d

\* Math.max(a, b)
MathMax(a, b) ==
  IF IsNaN(a) \/ IsNaN(b) THEN NaN ELSE IF Less(a, b) THEN b ELSE a

\* Math.round: the nearest integer, halves towards plus infinity
MathRound(a) ==
  IF IsNaN(a) THEN NaN ELSE Num((2 * a.n + a.d) \div (2 * a.d))

\* Math.floor
MathFloor(a) == IF IsNaN(a) THEN NaN ELSE Num(a.n \div a.d)

Digits == <<"0","1","2","3","4","5","6","7","8","9">>

IsDigit(c) == \E i \in 1..10 : Digits[i] = c

DigitVal(c) == (CHOOSE i \in 1..10 : Digits[i] = c) - 1

RECURSIVE DigitPrefix(_)
\* the longest prefix of s made of decimal digits
DigitPrefix(s) ==
  IF s # <<>> /\ IsDigit(Head(s)) THEN <<Head(s)>> \o DigitPrefix(Tail(s)) ELSE <<>>

RECURSIVE DigitsValue(_)
DigitsValue(ds) ==
  IF ds = <<>> THEN 0
  ELSE 10 * DigitsValue(SubSeq(ds, 1, Len(ds) - 1)) + DigitVal(ds[Len(ds)])

RECURSIVE Pow10(_)
Pow10(k) == IF k = 0 THEN 1 ELSE 10 * Pow10(k - 1)

\* parseFloat: leading white space, a sign, digits, a fraction, an exponent;
\* the longest prefix that is a number decides and the rest of the string is
\* ignored (Infinity does not occur in the modelled inputs)
FloatValue(neg, ip, fp) ==
  IF ip = <<>> /\ fp = <<>> THEN NaN
  ELSE Frac((IF neg THEN -1 ELSE 1) * (DigitsValue(ip) * Pow10(Len(fp)) + DigitsValue(fp)),
            Pow10(Len(fp)))

FractionDigits(rest) ==
  IF rest # <<>> /\ Head(rest) = "." THEN DigitPrefix(Tail(rest)) ELSE <<>>

Unsigned(t) == IF t # <<>> /\ Head(t) \in {"-", "+"} THEN Tail(t) ELSE t

\* the length of the digits, the point and the fraction digits
MantissaEnd(u, ip, fp) ==
  IF Len(u) > Len(ip) /\ u[Len(ip) + 1] = "." THEN Len(ip) + 1 + Len(fp) ELSE Len(ip)

ExponentValue(t, ds) ==
  IF ds = <<>> THEN 0 ELSE IF Head(t) = "-" THEN -DigitsValue(ds) ELSE DigitsValue(ds)

\* e or E, a sign and digits; without a digit there is no exponent
ExponentPart(rest) ==
  IF rest # <<>> /\ Head(rest) \in {"e", "E"}
    THEN ExponentValue(Tail(rest), DigitPrefix(Unsigned(Tail(rest))))
    ELSE 0

Scaled(x, e) ==
  IF IsNaN(x) THEN NaN
  ELSE IF e < 0 THEN Over(x, Num(Pow10(-e))) ELSE Times(x, Num(Pow10(e)))

FloatFraction(neg, u, ip, fp) ==
  Scaled(FloatValue(neg, ip, fp),
         ExponentPart(SubSeq(u, MantissaEnd(u, ip, fp) + 1, Len(u))))

FloatDigits(neg, u, ip) ==
  FloatFraction(neg, u, ip, FractionDigits(SubSeq(u, Len(ip) + 1, Len(u))))

SignedFloat(neg, u) == FloatDigits(neg, u, DigitPrefix(u))

FloatOf(t) == SignedFloat(t # <<>> /\ Head(t) = "-", Unsigned(t))

ParseFloat(s) == FloatOf(TrimStart(s))

HexDigits == <<"0","1","2","3","4","5","6","7","8","9","a","b","c","d","e","f">>

IsHexDigit(c) == \E i \in 1..16 : HexDigits[i] = LowerChar(c)

HexVal(c) == (CHOOSE i \in 1..16 : HexDigits[i] = LowerChar(c)) - 1

RECURSIVE HexPrefix(_)
HexPrefix(s) ==
  IF s # <<>> /\ IsHexDigit(Head(s)) THEN <<Head(s)>> \o HexPrefix(Tail(s)) ELSE <<>>

RECURSIVE HexValue(_)
HexValue(ds) ==
  IF ds = <<>> THEN 0
  ELSE 16 * HexValue(SubSeq(ds, 1, Len(ds) - 1)) + HexVal(ds[Len(ds)])

\* parseInt(s, 16): the longest prefix of hex digits, NaN when there is none
HexInt(neg, hp) ==
  IF hp = <<>> THEN NaN ELSE Num((IF neg THEN -1 ELSE 1) * HexValue(hp))

HexOf(t) == HexInt(t # <<>> /\ Head(t) = "-", HexPrefix(Unsigned(t)))

ParseIntHex(s) == HexOf(TrimStart(s))

\* a keyed JavaScript object: the value under key k, the empty string when absent
Get(obj, k) == IF k \in DOMAIN obj THEN obj[k] ELSE <<>>

Put(obj, k, v) == [x \in DOMAIN obj \cup {k} |-> IF x = k THEN v ELSE obj[x]]

EmptyObject == [x \in {} |-> <<>>]


\* ------------------------------------------------- css.ts: lengths ------

\* parseCSSLength(value, parentSize); an absent parentSize is 0 (both falsy)
InUnit(value, num, parentSize) ==
  IF IsNaN(num) THEN Num(0)
  ELSE IF EndsWith(value, <<"p","x">>) THEN num
  ELSE IF EndsWith(value, <<"r","e","m">>) THEN Times(num, Num(16))
  ELSE IF EndsWith(value, <<"e","m">>) THEN Times(num, Num(16))
  ELSE IF EndsWith(value, <<"%">>) /\ ~IsNaN(parentSize) /\ parentSize.n # 0
    THEN Times(Over(num, Num(100)), parentSize)
  ELSE IF EndsWith(value, <<"v","w">>) THEN Times(Over(num, Num(100)), Num(1440))
  ELSE IF EndsWith(value, <<"v","h">>) THEN Times(Over(num, Num(100)), Num(900))
  ELSE IF EndsWith(value, <<"p","t">>) THEN Times(num, Frac(4, 3))
  ELSE num

parseCSSLength(value, parentSize) ==
  IF value = <<>> \/ value = <<"a","u","t","o">> \/ value = <<"n","o","n","e">> THEN Num(0)
  ELSE InUnit(value, ParseFloat(value), parentSize)

\* parseCSSLength(value) as the mapper calls it, without a reference size
Length(value) == parseCSSLength(value, Num(0))

\* ------------------------------------------------- color.ts -------------

NAMED_COLORS ==
  <<"t","r","a","n","s","p","a","r","e","n","t">> :> <<"r","g","b","a","(","0",",","0",",","0",",","0",")">> @@
  <<"b","l","a","c","k">> :> <<"#","0","0","0","0","0","0">> @@
  <<"w","h","i","t","e">> :> <<"#","f","f","f","f","f","f">> @@
  <<"r","e","d">> :> <<"#","f","f","0","0","0","0">> @@
  <<"g","r","e","e","n">> :> <<"#","0","0","8","0","0","0">> @@
  <<"b","l","u","e">> :> <<"#","0","0","0","0","f","f">> @@
  <<"y","e","l","l","o","w">> :> <<"#","f","f","f","f","0","0">> @@
  <<"c","y","a","n">> :> <<"#","0","0","f","f","f","f">> @@
  <<"m","a","g","e","n","t","a">> :> <<"#","f","f","0","0","f","f">> @@
  <<"g","r","a","y">> :> <<"#","8","0","8","0","8","0">> @@
  <<"g","r","e","y">> :> <<"#","8","0","8","0","8","0">> @@
  <<"s","i","l","v","e","r">> :> <<"#","c","0","c","0","c","0">> @@
  <<"m","a","r","o","o","n">> :> <<"#","8","0","0","0","0","0">> @@
  <<"o","l","i","v","e">> :> <<"#","8","0","8","0","0","0">> @@
  <<"l","i","m","e">> :> <<"#","0","0","f","f","0","0">> @@
  <<"a","q","u","a">> :> <<"#","0","0","f","f","f","f">> @@
  <<"t","e","a","l">> :> <<"#","0","0","8","0","8","0">> @@
  <<"n","a","v","y">> :> <<"#","0","0","0","0","8","0">> @@
  <<"f","u","c","h","s","i","a">> :> <<"#","f","f","0","0","f","f">> @@
  <<"p","u","r","p","l","e">> :> <<"#","8","0","0","0","8","0">> @@
  <<"o","r","a","n","g","e">> :> <<"#","f","f","a","5","0","0">> @@
  <<"p","i","n","k">> :> <<"#","f","f","c","0","c","b">> @@
  <<"b","r","o","w","n">> :> <<"#","a","5","2","a","2","a">> @@
  <<"c","o","r","a","l">> :> <<"#","f","f","7","f","5","0">> @@
  <<"c","r","i","m","s","o","n">> :> <<"#","d","c","1","4","3","c">> @@
  <<"d","a","r","k","b","l","u","e">> :> <<"#","0","0","0","0","8","b">> @@
  <<"d","a","r","k","g","r","a","y">> :> <<"#","a","9","a","9","a","9">> @@
  <<"d","a","r","k","g","r","e","e","n">> :> <<"#","0","0","6","4","0","0">> @@
  <<"d","a","r","k","r","e","d">> :> <<"#","8","b","0","0","0","0">> @@
  <<"g","o","l","d">> :> <<"#","f","f","d","7","0","0">> @@
  <<"i","n","d","i","g","o">> :> <<"#","4","b","0","0","8","2">> @@
  <<"i","v","o","r","y">> :> <<"#","f","f","f","f","f","0">> @@
  <<"k","h","a","k","i">> :> <<"#","f","0","e","6","8","c">> @@
  <<"l","a","v","e","n","d","e","r">> :> <<"#","e","6","e","6","f","a">> @@
  <<"l","i","g","h","t","b","l","u","e">> :> <<"#","a","d","d","8","e","6">> @@
  <<"l","i","g","h","t","g","r","a","y">> :> <<"#","d","3","d","3","d","3">> @@
  <<"l","i","g","h","t","g","r","e","e","n">> :> <<"#","9","0","e","e","9","0">> @@
  <<"l","i","g","h","t","y","e","l","l","o","w">> :> <<"#","f","f","f","f","e","0">> @@
  <<"l","i","n","e","n">> :> <<"#","f","a","f","0","e","6">> @@
  <<"m","i","n","t","c","r","e","a","m">> :> <<"#","f","5","f","f","f","a">> @@
  <<"m","i","s","t","y","r","o","s","e">> :> <<"#","f","f","e","4","e","1">> @@
  <<"m","o","c","c","a","s","i","n">> :> <<"#","f","f","e","4","b","5">> @@
  <<"o","l","d","l","a","c","e">> :> <<"#","f","d","f","5","e","6">> @@
  <<"o","r","a","n","g","e","r","e","d">> :> <<"#","f","f","4","5","0","0">> @@
  <<"o","r","c","h","i","d">> :> <<"#","d","a","7","0","d","6">> @@
  <<"p","e","a","c","h","p","u","f","f">> :> <<"#","f","f","d","a","b","9">> @@
  <<"p","e","r","u">> :> <<"#","c","d","8","5","3","f">> @@
  <<"p","l","u","m">> :> <<"#","d","d","a","0","d","d">> @@
  <<"p","o","w","d","e","r","b","l","u","e">> :> <<"#","b","0","e","0","e","6">> @@
  <<"r","o","s","y","b","r","o","w","n">> :> <<"#","b","c","8","f","8","f">> @@
  <<"r","o","y","a","l","b","l","u","e">> :> <<"#","4","1","6","9","e","1">> @@
  <<"s","a","l","m","o","n">> :> <<"#","f","a","8","0","7","2">> @@
  <<"s","a","n","d","y","b","r","o","w","n">> :> <<"#","f","4","a","4","6","0">> @@
  <<"s","e","a","g","r","e","e","n">> :> <<"#","2","e","8","b","5","7">> @@
  <<"s","i","e","n","n","a">> :> <<"#","a","0","5","2","2","d">> @@
  <<"s","k","y","b","l","u","e">> :> <<"#","8","7","c","e","e","b">> @@
  <<"s","l","a","t","e","b","l","u","e">> :> <<"#","6","a","5","a","c","d">> @@
  <<"s","l","a","t","e","g","r","a","y">> :> <<"#","7","0","8","0","9","0">> @@
  <<"s","n","o","w">> :> <<"#","f","f","f","a","f","a">> @@
  <<"s","t","e","e","l","b","l","u","e">> :> <<"#","4","6","8","2","b","4">> @@
  <<"t","a","n">> :> <<"#","d","2","b","4","8","c">> @@
  <<"t","h","i","s","t","l","e">> :> <<"#","d","8","b","f","d","8">> @@
  <<"t","o","m","a","t","o">> :> <<"#","f","f","6","3","4","7">> @@
  <<"t","u","r","q","u","o","i","s","e">> :> <<"#","4","0","e","0","d","0">> @@
  <<"v","i","o","l","e","t">> :> <<"#","e","e","8","2","e","e">> @@
  <<"w","h","e","a","t">> :> <<"#","f","5","d","e","b","3">> @@
  <<"w","h","i","t","e","s","m","o","k","e">> :> <<"#","f","5","f","5","f","5">> @@
  <<"y","e","l","l","o","w","g","r","e","e","n">> :> <<"#","9","a","c","d","3","2">>

\* the keys every JavaScript object inherits: NAMED_COLORS[key] is truthy for
\* them although the table does not list them
ObjectPrototypeKeys ==
  {<<"c","o","n","s","t","r","u","c","t","o","r">>, <<"t","o","S","t","r","i","n","g">>, <<"v","a","l","u","e","O","f">>, <<"h","a","s","O","w","n","P","r","o","p","e","r","t","y">>, <<"i","s","P","r","o","t","o","t","y","p","e","O","f">>,
   <<"p","r","o","p","e","r","t","y","I","s","E","n","u","m","e","r","a","b","l","e">>, <<"t","o","L","o","c","a","l","e","S","t","r","i","n","g">>, <<"_","_","p","r","o","t","o","_","_">>,
   <<"_","_","d","e","f","i","n","e","G","e","t","t","e","r","_","_">>, <<"_","_","d","e","f","i","n","e","S","e","t","t","e","r","_","_">>, <<"_","_","l","o","o","k","u","p","G","e","t","t","e","r","_","_">>, <<"_","_","l","o","o","k","u","p","S","e","t","t","e","r","_","_">>}

\* FigmaRGBA | null, or a TypeError thrown while parsing
Null == [ok |-> FALSE, threw |-> FALSE, r |-> NaN, g |-> NaN, b |-> NaN, a |-> NaN]

Threw == [ok |-> FALSE, threw |-> TRUE, r |-> NaN, g |-> NaN, b |-> NaN, a |-> NaN]

RGBA(r, g, b, a) == [ok |-> TRUE, threw |-> FALSE, r |-> r, g |-> g, b |-> b, a |-> a]

Byte(hex, i) == Over(ParseIntHex(Substring(hex, i, i + 2)), Num(255))

HexColor(hex) ==
  RGBA(Byte(hex, 0), Byte(hex, 2), Byte(hex, 4), IF Len(hex) = 8 THEN Byte(hex, 6) ELSE Num(1))

\* a parseHex that doubles the digits of the three-digit form only
DoubledThreeOnly(h) ==
  IF Len(h) = 3 THEN <<h[1], h[1], h[2], h[2], h[3], h[3]>> ELSE h

Doubled(h) ==
  IF Len(h) = 3 THEN <<h[1], h[1], h[2], h[2], h[3], h[3]>>
  ELSE IF Len(h) = 4 THEN <<h[1], h[1], h[2], h[2], h[3], h[3], h[4], h[4]>>
  ELSE h

parseHex(hex) == HexColor(Doubled(ReplaceFirst(hex, <<"#">>, <<>>)))

\* the character at position i, "" outside the string
At(s, i) == IF i >= 1 /\ i <= Len(s) THEN s[i] ELSE ""

RECURSIVE SkipWs(_, _)
\* \s* from position i: the first position that holds no white space
SkipWs(s, i) == IF At(s, i) \in Whitespace THEN SkipWs(s, i + 1) ELSE i

RECURSIVE NumRunEnd(_, _)
\* [\d.]* from position i: the position after the run
NumRunEnd(s, i) ==
  IF IsDigit(At(s, i)) \/ At(s, i) = "." THEN NumRunEnd(s, i + 1) ELSE i

\* ([\d.]+), ([\d.]+%?) or ([\d.]+)% at position p: the position after the
\* token, 0 when it does not match
TokAfter(s, p, e, mode) ==
  IF e = p THEN 0
  ELSE IF mode = "none" THEN e
  ELSE IF mode = "opt" THEN (IF At(s, e) = "%" THEN e + 1 ELSE e)
  ELSE (IF At(s, e) = "%" THEN e + 1 ELSE 0)

TokEnd(s, p, mode) == TokAfter(s, p, NumRunEnd(s, p), mode)

\* \s*[,\s]\s* from position e: the position after it, 0 when it does not match
SepAfter(s, e, q) ==
  IF At(s, q) = "," THEN SkipWs(s, q + 1)
  ELSE IF q > e THEN q
  ELSE 0

SepEnd(s, e) == SepAfter(s, e, SkipWs(s, e))

NoMatch == [ok |-> FALSE, g1 |-> <<>>, g2 |-> <<>>, g3 |-> <<>>, g4 |-> <<>>]

\* the regular expressions of parseRgb and parseHsl tried at position i:
\*   name a? \( \s* tok1 sep tok2 sep tok3 \s* (?:[,/] \s* ([\d.]+%?))? \s* \)
\* with the percent signs of the three tokens given by modes
NoTokens == [ok |-> FALSE, groups |-> <<>>, end |-> 0]

\* the text a token captures: the percent sign of ([\d.]+)% is outside the group
TokRaw(s, b, e, mode) == IF mode = "req" THEN Slice(s, b, e - 2) ELSE Slice(s, b, e - 1)

RECURSIVE Tokens(_, _, _, _)
TokensFrom(s, b, e, modes, acc) ==
  IF e = 0 THEN NoTokens
  ELSE IF Len(acc) = 2
    THEN [ok |-> TRUE, groups |-> Append(acc, TokRaw(s, b, e, modes[3])), end |-> e]
  ELSE Tokens(s, SepEnd(s, e), modes, Append(acc, TokRaw(s, b, e, modes[Len(acc) + 1])))

\* tok1 sep tok2 sep tok3 from position b, the tokens before b in acc
Tokens(s, b, modes, acc) ==
  IF b = 0 THEN NoTokens
  ELSE TokensFrom(s, b, TokEnd(s, b, modes[Len(acc) + 1]), modes, acc)

Matched(groups, g4) ==
  [ok |-> TRUE, g1 |-> groups[1], g2 |-> groups[2], g3 |-> groups[3], g4 |-> g4]

AlphaEnd(s, groups, b4, e4) ==
  IF e4 # 0 /\ At(s, SkipWs(s, e4)) = ")" THEN Matched(groups, Slice(s, b4, e4 - 1))
  ELSE NoMatch

Alpha(s, groups, b4) == AlphaEnd(s, groups, b4, TokEnd(s, b4, "opt"))

Closing(s, groups, r) ==
  IF At(s, r) = ")" THEN Matched(groups, <<>>)
  ELSE IF At(s, r) \in {",", "/"} THEN Alpha(s, groups, SkipWs(s, r + 1))
  ELSE NoMatch

AfterTokens(s, t) == IF ~t.ok THEN NoMatch ELSE Closing(s, t.groups, SkipWs(s, t.end))

Opened(s, modes, p1) ==
  IF At(s, p1) # "(" THEN NoMatch
  ELSE AfterTokens(s, Tokens(s, SkipWs(s, p1 + 1), modes, <<>>))

AfterName(s, modes, p0) == Opened(s, modes, IF At(s, p0) = "a" THEN p0 + 1 ELSE p0)

MatchColorFnAt(s, i, name, modes) ==
  IF Slice(s, i, i + Len(name) - 1) # name THEN NoMatch
  ELSE AfterName(s, modes, i + Len(name))

\* String.prototype.match without the g flag: the leftmost position that matches
RECURSIVE MatchColorFnFrom(_, _, _, _)
FirstMatch(m, s, i, name, modes) ==
  IF m.ok THEN m ELSE MatchColorFnFrom(s, i + 1, name, modes)

MatchColorFnFrom(s, i, name, modes) ==
  IF i > Len(s) THEN NoMatch
  ELSE FirstMatch(MatchColorFnAt(s, i, name, modes), s, i, name, modes)

MatchColorFn(s, name, modes) == MatchColorFnFrom(s, 1, name, modes)

parseComponent(val) ==
  IF EndsWith(val, <<"%">>) THEN Over(ParseFloat(val), Num(100))
  ELSE Over(ParseFloat(val), Num(255))

parseAlpha(g4) ==
  IF g4 = <<>> THEN Num(1)
  ELSE IF EndsWith(g4, <<"%">>) THEN Over(ParseFloat(g4), Num(100))
  ELSE ParseFloat(g4)

RgbOf(m) ==
  IF ~m.ok THEN Null
  ELSE RGBA(parseComponent(m.g1), parseComponent(m.g2), parseComponent(m.g3),
            parseAlpha(m.g4))

parseRgb(color) == RgbOf(MatchColorFn(color, <<"r","g","b">>, <<"opt", "opt", "opt">>))

HueChannel(p, q, t) ==
  IF Less(t, Frac(1, 6)) THEN Plus(p, Times(Times(Minus(q, p), Num(6)), t))
  ELSE IF Less(t, Frac(1, 2)) THEN q
  ELSE IF Less(t, Frac(2, 3))
    THEN Plus(p, Times(Times(Minus(q, p), Minus(Frac(2, 3), t)), Num(6)))
  ELSE p

WrapAbove(t) == IF Less(Num(1), t) THEN Minus(t, Num(1)) ELSE t

WrapBelow(t) == IF Less(t, Num(0)) THEN Plus(t, Num(1)) ELSE t

hue2rgb(p, q, t0) == HueChannel(p, q, WrapAbove(WrapBelow(t0)))

HueChannels(h, p, q) ==
  [r |-> hue2rgb(p, q, Plus(h, Frac(1, 3))),
   g |-> hue2rgb(p, q, h),
   b |-> hue2rgb(p, q, Minus(h, Frac(1, 3)))]

Chromatic(h, l, q) == HueChannels(h, Minus(Times(Num(2), l), q), q)

hslToRgb(h, s, l) ==
  IF ~IsNaN(s) /\ s.n = 0 THEN [r |-> l, g |-> l, b |-> l]
  ELSE Chromatic(h, l, IF Less(l, Frac(1, 2))
                         THEN Times(l, Plus(Num(1), s))
                         ELSE Minus(Plus(l, s), Times(l, s)))

HslColor(rgb, a) == RGBA(rgb.r, rgb.g, rgb.b, a)

HslOf(m) ==
  IF ~m.ok THEN Null
  ELSE HslColor(hslToRgb(Over(ParseFloat(m.g1), Num(360)),
                         Over(ParseFloat(m.g2), Num(100)),
                         Over(ParseFloat(m.g3), Num(100))),
                parseAlpha(m.g4))

parseHsl(color) == HslOf(MatchColorFn(color, <<"h","s","l">>, <<"none", "req", "req">>))

\* NAMED_COLORS[color] || color
Lookup(table, key) == IF key \in DOMAIN table THEN table[key] ELSE key

ParseNotation(color) ==
  IF StartsWith(color, <<"#">>) THEN parseHex(color)
  ELSE IF StartsWith(color, <<"r","g","b">>) THEN parseRgb(color)
  ELSE IF StartsWith(color, <<"h","s","l">>) THEN parseHsl(color)
  ELSE Null

ParseNamed(c1) ==
  IF c1 \in ObjectPrototypeKeys THEN Threw ELSE ParseNotation(Lookup(NAMED_COLORS, c1))

parseCSSColor(color0) ==
  IF color0 = <<>> \/ color0 = <<"t","r","a","n","s","p","a","r","e","n","t">> \/ color0 = <<"n","o","n","e">> THEN Null
  ELSE ParseNamed(ToLowerCase(Trim(color0)))

\* isTransparent(color), for a color that did not throw
isTransparent(color) == IF ~color.ok THEN TRUE ELSE Less(color.a, Frac(1, 100))


\* ------------------------------------------------- css.ts: keywords -----

RECURSIVE RemoveChars(_, _)
\* String.prototype.replace(/[...]/g, ''): every character of the set removed
RemoveChars(s, set) ==
  IF s = <<>> THEN <<>>
  ELSE IF Head(s) \in set THEN RemoveChars(Tail(s), set)
  ELSE <<Head(s)>> \o RemoveChars(Tail(s), set)

\* parseInt(s, 10)
DecInt(neg, dp) ==
  IF dp = <<>> THEN NaN ELSE Num((IF neg THEN -1 ELSE 1) * DigitsValue(dp))

DecOf(t) == DecInt(t # <<>> /\ Head(t) = "-", DigitPrefix(Unsigned(t)))

ParseIntDec(s) == DecOf(TrimStart(s))

WeightKeywords ==
  <<"t","h","i","n">> :> 100 @@ <<"h","a","i","r","l","i","n","e">> :> 100 @@ <<"e","x","t","r","a","l","i","g","h","t">> :> 200 @@ <<"u","l","t","r","a","l","i","g","h","t">> :> 200 @@
  <<"l","i","g","h","t">> :> 300 @@ <<"n","o","r","m","a","l">> :> 400 @@ <<"r","e","g","u","l","a","r">> :> 400 @@ <<"m","e","d","i","u","m">> :> 500 @@
  <<"s","e","m","i","b","o","l","d">> :> 600 @@ <<"d","e","m","i","b","o","l","d">> :> 600 @@ <<"b","o","l","d">> :> 700 @@ <<"e","x","t","r","a","b","o","l","d">> :> 800 @@
  <<"u","l","t","r","a","b","o","l","d">> :> 800 @@ <<"b","l","a","c","k">> :> 900 @@ <<"h","e","a","v","y">> :> 900

\* parseFontWeight(weight); an inherited object key yields a function, which
\* behaves as NaN in the arithmetic of getFigmaFontStyle
WeightOf(lower, num) ==
  IF lower \in DOMAIN WeightKeywords THEN Num(WeightKeywords[lower])
  ELSE IF lower \in ObjectPrototypeKeys THEN NaN
  ELSE IF IsNaN(num) THEN Num(400) ELSE num

parseFontWeight(weight) ==
  IF weight = <<>> THEN Num(400)
  ELSE WeightOf(RemoveChars(ToLowerCase(weight), {"-", " "}), ParseIntDec(weight))

mapTextAlign(align) ==
  IF align = <<"c","e","n","t","e","r">> THEN "CENTER"
  ELSE IF align = <<"r","i","g","h","t">> \/ align = <<"e","n","d">> THEN "RIGHT"
  ELSE IF align = <<"j","u","s","t","i","f","y">> THEN "JUSTIFIED"
  ELSE "LEFT"

mapTextDecoration(decoration) ==
  IF decoration = <<>> THEN "NONE"
  ELSE IF Includes(decoration, <<"u","n","d","e","r","l","i","n","e">>) THEN "UNDERLINE"
  ELSE IF Includes(decoration, <<"l","i","n","e","-","t","h","r","o","u","g","h">>) THEN "STRIKETHROUGH"
  ELSE "NONE"

mapTextCase(transform) ==
  IF transform = <<"u","p","p","e","r","c","a","s","e">> THEN "UPPER"
  ELSE IF transform = <<"l","o","w","e","r","c","a","s","e">> THEN "LOWER"
  ELSE IF transform = <<"c","a","p","i","t","a","l","i","z","e">> THEN "TITLE"
  ELSE "ORIGINAL"

WeightNames ==
  100 :> <<"T","h","i","n">> @@ 200 :> <<"E","x","t","r","a","L","i","g","h","t">> @@ 300 :> <<"L","i","g","h","t">> @@ 400 :> <<"R","e","g","u","l","a","r">> @@
  500 :> <<"M","e","d","i","u","m">> @@ 600 :> <<"S","e","m","i","B","o","l","d">> @@ 700 :> <<"B","o","l","d">> @@ 800 :> <<"E","x","t","r","a","B","o","l","d">> @@
  900 :> <<"B","l","a","c","k">>

\* getFigmaFontStyle(weight, italic): the first of the closest weights 100..900
getFigmaFontStyle(weight, italic) ==
  LET dist(w) == Abs(w * weight.d - weight.n)
      closest == IF IsNaN(weight) THEN 100
                 ELSE CHOOSE w \in DOMAIN WeightNames :
                        \A v \in DOMAIN WeightNames :
                          dist(w) < dist(v) \/ (dist(w) = dist(v) /\ w <= v)
      name == WeightNames[closest]
  IN IF italic THEN name \o <<" ","I","t","a","l","i","c">> ELSE name

\* ------------------------------------------------- css.ts: box-shadow ---

RECURSIVE SplitTopLevel(_, _, _, _)
\* the scan of splitShadows and splitGradientParts: s is cut at the commas met
\* at depth 0, "(" raising and ")" lowering the depth; the pieces before each
\* comma come first, the rest of the string last
SplitTopLevel(s, i, depth, current) ==
  IF i > Len(s) THEN <<current>>
  ELSE LET c == s[i]
           d == IF c = "(" THEN depth + 1 ELSE IF c = ")" THEN depth - 1 ELSE depth
       IN IF c = "," /\ d = 0
            THEN <<current>> \o SplitTopLevel(s, i + 1, d, <<>>)
            ELSE SplitTopLevel(s, i + 1, d, current \o <<c>>)

\* splitShadows(shadow): the last piece is kept only when it is not blank
DropBlankLast(pieces) ==
  IF Trim(pieces[Len(pieces)]) # <<>> THEN pieces ELSE SubSeq(pieces, 1, Len(pieces) - 1)

splitShadows(shadow) == DropBlankLast(SplitTopLevel(shadow, 1, 0, <<>>))

\* the first ")" at or after position i, 0 when there is none
CloseParen(s, i) == Leftmost({j \in i..Len(s) : s[j] = ")"})

\* name\([^)]+\) at position i: the position of the closing parenthesis, else 0
FnCallClosed(s, open, close) ==
  IF At(s, open) = "(" /\ close > open + 1 THEN close ELSE 0

FnCallOpen(s, open) == FnCallClosed(s, open, CloseParen(s, open + 1))

FnCallEnd(s, i, name) ==
  IF Slice(s, i, i + Len(name) - 1) = name THEN FnCallOpen(s, i + Len(name)) ELSE 0

\* (rgba?\([^)]+\)|hsla?\([^)]+\)) at position i
OrElse(first, second) == IF first # 0 THEN first ELSE second

ColorFnEnd(s, i) ==
  OrElse(FnCallEnd(s, i, <<"r","g","b">>),
         OrElse(FnCallEnd(s, i, <<"r","g","b","a">>),
                OrElse(FnCallEnd(s, i, <<"h","s","l">>), FnCallEnd(s, i, <<"h","s","l","a">>))))

\* the leftmost match of the function-colour expression, <<>> when none
RECURSIVE ColorFnFrom(_, _)
ColorFnAt(s, i, e) == IF e # 0 THEN SubSeq(s, i, e) ELSE ColorFnFrom(s, i + 1)

ColorFnFrom(s, i) == IF i > Len(s) THEN <<>> ELSE ColorFnAt(s, i, ColorFnEnd(s, i))

ColorFnMatch(s) == ColorFnFrom(s, 1)

RECURSIVE HexRunEnd(_, _, _)
\* [0-9a-fA-F]{0,left} from position i: the position after the run
HexRunEnd(s, i, left) ==
  IF left > 0 /\ IsHexDigit(At(s, i)) THEN HexRunEnd(s, i + 1, left - 1) ELSE i

\* the leftmost match of (#[0-9a-fA-F]{3,8}), <<>> when none
RECURSIVE HexFrom(_, _)
HexAt(s, i, e) ==
  IF s[i] = "#" /\ e >= i + 4 THEN SubSeq(s, i, e - 1) ELSE HexFrom(s, i + 1)

HexFrom(s, i) == IF i > Len(s) THEN <<>> ELSE HexAt(s, i, HexRunEnd(s, i + 1, 8))

HexMatch(s) == HexFrom(s, 1)

\* -?[\d.]+px at position i: the position after the match, 0 when none
PxAfter(s, b, e) == IF e > b /\ Slice(s, e, e + 1) = <<"p","x">> THEN e + 2 ELSE 0

PxFrom(s, b) == PxAfter(s, b, NumRunEnd(s, b))

PxEnd(s, i) == PxFrom(s, IF At(s, i) = "-" THEN i + 1 ELSE i)

RECURSIVE PxMatches(_, _)
\* String.prototype.match(/-?[\d.]+px/g): every match, left to right
PxMatchAt(s, i, e) ==
  IF e # 0 THEN <<SubSeq(s, i, e - 1)>> \o PxMatches(s, e) ELSE PxMatches(s, i + 1)

PxMatches(s, i) == IF i > Len(s) THEN <<>> ELSE PxMatchAt(s, i, PxEnd(s, i))

NoShadow ==
  [ok |-> FALSE, offsetX |-> NaN, offsetY |-> NaN, blur |-> NaN, spread |-> NaN,
   color |-> <<>>, inset |-> FALSE]

ShadowOf(inset, color, nums) ==
  IF Len(nums) < 2 THEN NoShadow
  ELSE [ok |-> TRUE,
        offsetX |-> ParseFloat(nums[1]),
        offsetY |-> ParseFloat(nums[2]),
        blur |-> IF Len(nums) >= 3 THEN ParseFloat(nums[3]) ELSE Num(0),
        spread |-> IF Len(nums) >= 4 THEN ParseFloat(nums[4]) ELSE Num(0),
        color |-> color,
        inset |-> inset]

ShadowWith(inset, cleaned, color) ==
  ShadowOf(inset, color, PxMatches(Trim(ReplaceFirst(cleaned, color, <<>>)), 1))

ShadowColor(inset, cleaned, fn, hex) ==
  IF fn # <<>> THEN ShadowWith(inset, cleaned, fn)
  ELSE IF hex # <<>> THEN ShadowWith(inset, cleaned, hex)
  ELSE ShadowOf(inset, <<"r","g","b","a","(","0",",","0",",","0",",","0",".","2","5",")">>, PxMatches(cleaned, 1))

ShadowCleaned(inset, cleaned) ==
  ShadowColor(inset, cleaned, ColorFnMatch(cleaned), HexMatch(cleaned))

parseSingleShadow(shadow) ==
  ShadowCleaned(Includes(shadow, <<"i","n","s","e","t">>), Trim(ReplaceFirst(shadow, <<"i","n","s","e","t">>, <<>>)))

RECURSIVE ParsedShadows(_)
KeepParsed(parsed, rest) == (IF parsed.ok THEN <<parsed>> ELSE <<>>) \o ParsedShadows(rest)

ParsedShadows(parts) ==
  IF parts = <<>> THEN <<>>
  ELSE KeepParsed(parseSingleShadow(Trim(Head(parts))), Tail(parts))

parseBoxShadow(shadow) ==
  IF shadow = <<>> \/ shadow = <<"n","o","n","e">> THEN <<>>
  ELSE ParsedShadows(splitShadows(shadow))


\* ------------------------------------------------- Capture --------------
\* A live DOM node is a record: an element
\*   [nodeType |-> "ELEMENT_NODE", tagName, attributes, style, rect, childNodes]
\* where style is the computed style declaration (CSS property name -> value)
\* and rect the result of getBoundingClientRect(); a text node
\*   [nodeType |-> "TEXT_NODE", textContent, rect]
\* where rect is the bounding rectangle of a range over its contents; or any
\* other node, such as a comment [nodeType |-> "COMMENT_NODE"].

\* CSSStyleDeclaration.getPropertyValue: "" for a property without a value
getPropertyValue(style, name) == Get(style, name)

RECURSIVE camelToKebab(_)
camelToKebab(str) ==
  IF str = <<>> THEN <<>>
  ELSE IF IsUpper(Head(str))
    THEN <<"-", LowerChar(Head(str))>> \o camelToKebab(Tail(str))
  ELSE <<Head(str)>> \o camelToKebab(Tail(str))

\* the props list of HTMLParser.extractStyles
ParserProps ==
  <<<<"d","i","s","p","l","a","y">>, <<"p","o","s","i","t","i","o","n">>, <<"f","l","e","x","D","i","r","e","c","t","i","o","n">>, <<"j","u","s","t","i","f","y","C","o","n","t","e","n","t">>, <<"a","l","i","g","n","I","t","e","m","s">>,
    <<"f","l","e","x","W","r","a","p">>, <<"g","a","p">>, <<"r","o","w","G","a","p">>, <<"c","o","l","u","m","n","G","a","p">>,
    <<"w","i","d","t","h">>, <<"h","e","i","g","h","t">>, <<"m","i","n","W","i","d","t","h">>, <<"m","i","n","H","e","i","g","h","t">>, <<"m","a","x","W","i","d","t","h">>, <<"m","a","x","H","e","i","g","h","t">>,
    <<"p","a","d","d","i","n","g","T","o","p">>, <<"p","a","d","d","i","n","g","R","i","g","h","t">>, <<"p","a","d","d","i","n","g","B","o","t","t","o","m">>, <<"p","a","d","d","i","n","g","L","e","f","t">>,
    <<"m","a","r","g","i","n","T","o","p">>, <<"m","a","r","g","i","n","R","i","g","h","t">>, <<"m","a","r","g","i","n","B","o","t","t","o","m">>, <<"m","a","r","g","i","n","L","e","f","t">>,
    <<"t","o","p">>, <<"r","i","g","h","t">>, <<"b","o","t","t","o","m">>, <<"l","e","f","t">>, <<"z","I","n","d","e","x">>,
    <<"f","o","n","t","F","a","m","i","l","y">>, <<"f","o","n","t","S","i","z","e">>, <<"f","o","n","t","W","e","i","g","h","t">>, <<"f","o","n","t","S","t","y","l","e">>,
    <<"l","i","n","e","H","e","i","g","h","t">>, <<"l","e","t","t","e","r","S","p","a","c","i","n","g">>, <<"t","e","x","t","A","l","i","g","n">>, <<"t","e","x","t","D","e","c","o","r","a","t","i","o","n">>, <<"t","e","x","t","T","r","a","n","s","f","o","r","m">>,
    <<"c","o","l","o","r">>, <<"b","a","c","k","g","r","o","u","n","d","C","o","l","o","r">>, <<"b","a","c","k","g","r","o","u","n","d","I","m","a","g","e">>, <<"b","a","c","k","g","r","o","u","n","d","S","i","z","e">>, <<"b","a","c","k","g","r","o","u","n","d","P","o","s","i","t","i","o","n">>,
    <<"b","o","r","d","e","r","T","o","p","W","i","d","t","h">>, <<"b","o","r","d","e","r","R","i","g","h","t","W","i","d","t","h">>, <<"b","o","r","d","e","r","B","o","t","t","o","m","W","i","d","t","h">>, <<"b","o","r","d","e","r","L","e","f","t","W","i","d","t","h">>,
    <<"b","o","r","d","e","r","T","o","p","C","o","l","o","r">>, <<"b","o","r","d","e","r","R","i","g","h","t","C","o","l","o","r">>, <<"b","o","r","d","e","r","B","o","t","t","o","m","C","o","l","o","r">>, <<"b","o","r","d","e","r","L","e","f","t","C","o","l","o","r">>,
    <<"b","o","r","d","e","r","T","o","p","S","t","y","l","e">>, <<"b","o","r","d","e","r","R","i","g","h","t","S","t","y","l","e">>, <<"b","o","r","d","e","r","B","o","t","t","o","m","S","t","y","l","e">>, <<"b","o","r","d","e","r","L","e","f","t","S","t","y","l","e">>,
    <<"b","o","r","d","e","r","T","o","p","L","e","f","t","R","a","d","i","u","s">>, <<"b","o","r","d","e","r","T","o","p","R","i","g","h","t","R","a","d","i","u","s">>, <<"b","o","r","d","e","r","B","o","t","t","o","m","R","i","g","h","t","R","a","d","i","u","s">>,
    <<"b","o","r","d","e","r","B","o","t","t","o","m","L","e","f","t","R","a","d","i","u","s">>,
    <<"o","p","a","c","i","t","y">>, <<"b","o","x","S","h","a","d","o","w">>, <<"o","v","e","r","f","l","o","w">>, <<"v","i","s","i","b","i","l","i","t","y">>, <<"o","b","j","e","c","t","F","i","t">>>>

\* the props list of the extension's serializeElement
ExtensionProps ==
  <<<<"d","i","s","p","l","a","y">>, <<"p","o","s","i","t","i","o","n">>, <<"f","l","e","x","D","i","r","e","c","t","i","o","n">>, <<"j","u","s","t","i","f","y","C","o","n","t","e","n","t">>, <<"a","l","i","g","n","I","t","e","m","s">>,
    <<"f","l","e","x","W","r","a","p">>, <<"g","a","p">>, <<"r","o","w","G","a","p">>, <<"c","o","l","u","m","n","G","a","p">>,
    <<"w","i","d","t","h">>, <<"h","e","i","g","h","t">>, <<"p","a","d","d","i","n","g","T","o","p">>, <<"p","a","d","d","i","n","g","R","i","g","h","t">>, <<"p","a","d","d","i","n","g","B","o","t","t","o","m">>, <<"p","a","d","d","i","n","g","L","e","f","t">>,
    <<"m","a","r","g","i","n","T","o","p">>, <<"m","a","r","g","i","n","R","i","g","h","t">>, <<"m","a","r","g","i","n","B","o","t","t","o","m">>, <<"m","a","r","g","i","n","L","e","f","t">>,
    <<"f","o","n","t","F","a","m","i","l","y">>, <<"f","o","n","t","S","i","z","e">>, <<"f","o","n","t","W","e","i","g","h","t">>, <<"f","o","n","t","S","t","y","l","e">>,
    <<"l","i","n","e","H","e","i","g","h","t">>, <<"l","e","t","t","e","r","S","p","a","c","i","n","g">>, <<"t","e","x","t","A","l","i","g","n">>, <<"t","e","x","t","D","e","c","o","r","a","t","i","o","n">>, <<"t","e","x","t","T","r","a","n","s","f","o","r","m">>,
    <<"c","o","l","o","r">>, <<"b","a","c","k","g","r","o","u","n","d","C","o","l","o","r">>, <<"b","a","c","k","g","r","o","u","n","d","I","m","a","g","e">>,
    <<"b","o","r","d","e","r","T","o","p","W","i","d","t","h">>, <<"b","o","r","d","e","r","R","i","g","h","t","W","i","d","t","h">>, <<"b","o","r","d","e","r","B","o","t","t","o","m","W","i","d","t","h">>, <<"b","o","r","d","e","r","L","e","f","t","W","i","d","t","h">>,
    <<"b","o","r","d","e","r","T","o","p","C","o","l","o","r">>, <<"b","o","r","d","e","r","R","i","g","h","t","C","o","l","o","r">>, <<"b","o","r","d","e","r","B","o","t","t","o","m","C","o","l","o","r">>, <<"b","o","r","d","e","r","L","e","f","t","C","o","l","o","r">>,
    <<"b","o","r","d","e","r","T","o","p","L","e","f","t","R","a","d","i","u","s">>, <<"b","o","r","d","e","r","T","o","p","R","i","g","h","t","R","a","d","i","u","s">>, <<"b","o","r","d","e","r","B","o","t","t","o","m","R","i","g","h","t","R","a","d","i","u","s">>,
    <<"b","o","r","d","e","r","B","o","t","t","o","m","L","e","f","t","R","a","d","i","u","s">>,
    <<"o","p","a","c","i","t","y">>, <<"b","o","x","S","h","a","d","o","w">>, <<"o","v","e","r","f","l","o","w">>, <<"v","i","s","i","b","i","l","i","t","y">>, <<"o","b","j","e","c","t","F","i","t">>>>

Range(seq) == {seq[i] : i \in 1..Len(seq)}

\* the test both extractors apply to a property value inside their loop
\* a variant of IsKept that holds of every value: no property is filtered out
KeepsEveryValue(value) == TRUE

IsKept(value) ==
  value # <<>> /\ value # <<"n","o","n","e">> /\ value # <<"n","o","r","m","a","l">> /\ value # <<"a","u","t","o">>

\* the loop over props followed by the two unconditional assignments
ExtractProps(style, props) ==
  LET kept == {p \in Range(props) : IsKept(getPropertyValue(style, camelToKebab(p)))}
  IN [p \in kept \cup {<<"d","i","s","p","l","a","y">>, <<"p","o","s","i","t","i","o","n">>} |->
        IF p = <<"d","i","s","p","l","a","y">> THEN getPropertyValue(style, <<"d","i","s","p","l","a","y">>)
        ELSE IF p = <<"p","o","s","i","t","i","o","n">> THEN getPropertyValue(style, <<"p","o","s","i","t","i","o","n">>)
        ELSE getPropertyValue(style, camelToKebab(p))]

\* HTMLParser.extractStyles
extractStyles(style) == ExtractProps(style, ParserProps)

\* HTMLParser.getAttributes
getAttributes(element) == element.attributes

BoundingBox(rect) ==
  [x |-> rect.left, y |-> rect.top, width |-> rect.width, height |-> rect.height]

\* a variant of IsZeroRect that never holds: no node is dropped for an empty box
KeepsEmptyBoxes(rect) == FALSE

IsZeroRect(rect) == rect.width = Num(0) /\ rect.height = Num(0)

\* a variant of SerializedText that leaves the style of the owning element out
SerializedTextUnstyled(content, computedStyle, rect) ==
  [type |-> "text", content |-> content, computedStyle |-> EmptyObject,
   boundingBox |-> [x |-> rect.left, y |-> rect.top, width |-> rect.width,
                    height |-> rect.height]]

\* the Text record both captures push: the trimmed content, the style map of
\* the owning element and the box of the range around the text
SerializedText(content, computedStyle, rect) ==
  [type |-> "text", content |-> content, computedStyle |-> computedStyle,
   boundingBox |-> BoundingBox(rect)]

ParserSkippedTags == {<<"s","c","r","i","p","t">>, <<"s","t","y","l","e">>, <<"l","i","n","k">>, <<"m","e","t","a">>, <<"n","o","s","c","r","i","p","t">>}

RECURSIVE serializeChildren(_), SerializeChildrenFrom(_, _)
\* the body of the loop of HTMLParser.serializeChildren for the i-th child node
\* and the children after it
SerializeChildrenFrom(parent, i) ==
  IF i > Len(parent.childNodes) THEN <<>>
  ELSE LET child == parent.childNodes[i]
           rest == SerializeChildrenFrom(parent, i + 1)
       IN IF child.nodeType = "ELEMENT_NODE"
            THEN LET tag == ToLowerCase(child.tagName)
                 IN IF getPropertyValue(child.style, <<"d","i","s","p","l","a","y">>) = <<"n","o","n","e">>
                       \/ getPropertyValue(child.style, <<"v","i","s","i","b","i","l","i","t","y">>) = <<"h","i","d","d","e","n">>
                      THEN rest
                    ELSE IF tag \in ParserSkippedTags THEN rest
                    ELSE IF IsZeroRect(child.rect) THEN rest
                    ELSE <<[type |-> "element",
                            tag |-> tag,
                            attributes |-> getAttributes(child),
                            computedStyle |-> extractStyles(child.style),
                            boundingBox |-> BoundingBox(child.rect),
                            children |-> serializeChildren(child)]>> \o rest
          ELSE IF child.nodeType = "TEXT_NODE"
            THEN LET text == Trim(child.textContent)
                 IN IF text = <<>> THEN rest
                    ELSE IF IsZeroRect(child.rect) THEN rest
                    ELSE <<SerializedText(text, extractStyles(parent.style), child.rect)>>
                         \o rest
          ELSE rest

serializeChildren(parent) == SerializeChildrenFrom(parent, 1)

\* HTMLParser.serializeDOM
serializeDOM(element) ==
  [tag |-> ToLowerCase(element.tagName),
   attributes |-> getAttributes(element),
   computedStyle |-> extractStyles(element.style),
   boundingBox |-> BoundingBox(element.rect),
   children |-> serializeChildren(element)]

ExtensionSkippedTags == {<<"s","c","r","i","p","t">>, <<"s","t","y","l","e">>, <<"l","i","n","k">>, <<"m","e","t","a">>, <<"n","o","s","c","r","i","p","t">>, <<"i","f","r","a","m","e">>}

\* serializeElement returned null
Pruned == [type |-> "null"]

RECURSIVE serializeElement(_), ExtensionChildrenFrom(_, _, _)
\* the loop over element.childNodes of the extension's serializeElement
ExtensionChildrenFrom(element, computedStyle, i) ==
  IF i > Len(element.childNodes) THEN <<>>
  ELSE LET child == element.childNodes[i]
           rest == ExtensionChildrenFrom(element, computedStyle, i + 1)
       IN IF child.nodeType = "ELEMENT_NODE"
            THEN LET serialized == serializeElement(child)
                 IN IF serialized.type # "null" THEN <<serialized>> \o rest ELSE rest
          ELSE IF child.nodeType = "TEXT_NODE"
            THEN LET text == Trim(child.textContent)
                 IN IF text # <<>>
                      THEN <<SerializedText(text, computedStyle, child.rect)>> \o rest
                      ELSE rest
          ELSE rest

\* captureDOM.serializeElement of the browser extension
serializeElement(element) ==
  LET tag == ToLowerCase(element.tagName)
      computedStyle == ExtractProps(element.style, ExtensionProps)
  IN IF getPropertyValue(element.style, <<"d","i","s","p","l","a","y">>) = <<"n","o","n","e">>
        \/ getPropertyValue(element.style, <<"v","i","s","i","b","i","l","i","t","y">>) = <<"h","i","d","d","e","n">>
       THEN Pruned
     ELSE IF IsZeroRect(element.rect) THEN Pruned
     ELSE IF tag \in ExtensionSkippedTags THEN Pruned
     ELSE [type |-> "element",
           tag |-> tag,
           attributes |-> element.attributes,
           computedStyle |-> computedStyle,
           boundingBox |-> BoundingBox(element.rect),
           children |-> ExtensionChildrenFrom(element, computedStyle, 1)]

\* reading serialized.tag of a null result throws: captureDOM returns nothing
CaptureFailed == [type |-> "error"]

\* popup.js captureDOM with the document body as its root
captureDOM(root) ==
  LET serialized == serializeElement(root)
  IN IF serialized = Pruned THEN CaptureFailed
     ELSE [tag |-> serialized.tag,
           attributes |-> serialized.attributes,
           computedStyle |-> serialized.computedStyle,
           boundingBox |-> serialized.boundingBox,
           children |-> serialized.children]


\* ------------------------------------------------- live documents -------

Rect(l, t, w, h) == [left |-> l, top |-> t, width |-> w, height |-> h]

\* a computed style as a browser reports it for an unstyled block element;
\* cursor is a property neither extractor tracks
BaseStyle ==
  <<"d","i","s","p","l","a","y">> :> <<"b","l","o","c","k">> @@ <<"p","o","s","i","t","i","o","n">> :> <<"s","t","a","t","i","c">> @@ <<"v","i","s","i","b","i","l","i","t","y">> :> <<"v","i","s","i","b","l","e">> @@
  <<"g","a","p">> :> <<"n","o","r","m","a","l">> @@ <<"z","-","i","n","d","e","x">> :> <<"a","u","t","o">> @@ <<"b","a","c","k","g","r","o","u","n","d","-","i","m","a","g","e">> :> <<"n","o","n","e">> @@
  <<"b","a","c","k","g","r","o","u","n","d","-","c","o","l","o","r">> :> <<"r","g","b","a","(","0",","," ","0",","," ","0",","," ","0",")">> @@ <<"m","i","n","-","w","i","d","t","h">> :> <<"0","p","x">> @@
  <<"o","p","a","c","i","t","y">> :> <<"1">> @@ <<"c","u","r","s","o","r">> :> <<"p","o","i","n","t","e","r">>

Style(overrides) == overrides @@ BaseStyle

Element(tagName, attributes, style, rect, childNodes) ==
  [nodeType |-> "ELEMENT_NODE", tagName |-> tagName, attributes |-> attributes,
   style |-> style, rect |-> rect, childNodes |-> childNodes]

TextNode(textContent, rect) ==
  [nodeType |-> "TEXT_NODE", textContent |-> textContent, rect |-> rect]

CommentNode == [nodeType |-> "COMMENT_NODE"]

\* the greatest number of child nodes of a live document body in the model
MaxKids == 2

\* the id attribute of the element at place i, with a suffix for its descendants
IdAt(i, suffix) == <<"n", Digits[i + 1]>> \o suffix

Shown == Rect(Num(8), Num(8), Num(10), Num(5))

Inner == Rect(Num(9), Frac(19, 2), Num(4), Num(3))

RangeRect == Rect(Frac(17, 2), Num(9), Num(7), Num(2))

Vanished == Rect(Num(0), Num(0), Num(0), Num(0))

Span(id, style, rect, childNodes) ==
  Element(<<"S","P","A","N">>, <<"i","d">> :> id, Style(style), rect, childNodes)

\* the child nodes a captured body can have at place i: elements that are
\* rendered, not displayed, hidden, empty boxes or non-visual tags, each with
\* rendered descendants, and text, blank text and comments
CaptureKids(i) ==
  { Element(<<"D","I","V">>, <<"i","d">> :> IdAt(i, <<>>) @@ <<"c","l","a","s","s">> :> <<"c","a","r","d">>, Style(EmptyObject), Shown,
            <<TextNode(<<" "," ","h","i"," ">>, RangeRect), Span(IdAt(i, <<"a">>), EmptyObject, Inner, <<>>)>>),
    Element(<<"D","I","V">>, <<"i","d">> :> IdAt(i, <<>>), Style(<<"d","i","s","p","l","a","y">> :> <<"n","o","n","e">>), Shown,
            <<Span(IdAt(i, <<"a">>), EmptyObject, Inner, <<>>), TextNode(<<"g","o","n","e">>, RangeRect)>>),
    Element(<<"D","I","V">>, <<"i","d">> :> IdAt(i, <<>>), Style(<<"v","i","s","i","b","i","l","i","t","y">> :> <<"h","i","d","d","e","n">>), Shown,
            <<Span(IdAt(i, <<"a">>), <<"v","i","s","i","b","i","l","i","t","y">> :> <<"v","i","s","i","b","l","e">>, Inner, <<>>),
              TextNode(<<"g","o","n","e">>, RangeRect)>>),
    Element(<<"D","I","V">>, <<"i","d">> :> IdAt(i, <<>>) @@ <<"c","l","a","s","s">> :> <<"c","a","r","d">> @@ <<"t","i","t","l","e">> :> <<"t">>,
            Style(EmptyObject), Vanished,
            <<Span(IdAt(i, <<"a">>), EmptyObject, Inner, <<>>), TextNode(<<"g","o","n","e">>, RangeRect)>>),
    Element(<<"D","I","V">>, <<"i","d">> :> IdAt(i, <<>>), Style(<<"z","-","i","n","d","e","x">> :> <<"3">>),
            Rect(Num(8), Num(8), Num(0), Num(5)), <<>>),
    Element(<<"S","C","R","I","P","T">>, <<"i","d">> :> IdAt(i, <<>>), Style(EmptyObject), Shown,
            <<TextNode(<<"v","a","r"," ","x">>, RangeRect)>>),
    Element(<<"I","F","R","A","M","E">>, <<"i","d">> :> IdAt(i, <<>>), Style(EmptyObject), Shown, <<>>),
    Element(<<"D","I","V">>, <<"i","d">> :> IdAt(i, <<>>), Style(<<"d","i","s","p","l","a","y">> :> <<"f","l","e","x">> @@ <<"g","a","p">> :> <<"8","p","x">>), Shown,
            <<TextNode(<<" ","\n">>, RangeRect),
              Span(IdAt(i, <<"a">>), <<"d","i","s","p","l","a","y">> :> <<"n","o","n","e">>, Inner, <<>>),
              TextNode(<<"x">>, Vanished),
              Span(IdAt(i, <<"b">>), <<"d","i","s","p","l","a","y">> :> <<"i","n","l","i","n","e">>, Inner,
                   <<TextNode(<<" ","a"," ","b","\t">>, RangeRect)>>)>>),
    TextNode(<<" "," ","h","i"," ">>, RangeRect),
    TextNode(<<" "," "," ">>, RangeRect),
    CommentNode }

\* the lists of at most max nodes whose i-th node is one of Kids(i)
KidLists(Kids(_), max) ==
  UNION { {kids \in [1..n -> UNION {Kids(i) : i \in 1..n}] :
             \A i \in 1..n : kids[i] \in Kids(i)} : n \in 0..max }

\* the document bodies Capture is run on
CaptureDocs ==
  { Element(<<"B","O","D","Y">>, <<"i","d">> :> <<"r","o","o","t">>, style, Rect(Num(0), Num(0), Num(100), Num(50)), kids) :
      style \in {Style(EmptyObject), Style(<<"d","i","s","p","l","a","y">> :> <<"n","o","n","e">> @@ <<"m","i","n","-","w","i","d","t","h">> :> <<"a","u","t","o">>)},
      kids \in KidLists(CaptureKids, MaxKids) }


\* ------------------------------------------------- mapper: gradients ----

NoGradient == [ok |-> FALSE, threw |-> FALSE]

\* the leftmost match of /linear-gradient\(([^)]+)\)/: its group, <<>> when none
RECURSIVE GradientArgsFrom(_, _)
GradientArgsAt(value, i, close) ==
  IF close # 0 THEN SubSeq(value, i + Len(<<"l","i","n","e","a","r","-","g","r","a","d","i","e","n","t">>) + 1, close - 1)
  ELSE GradientArgsFrom(value, i + 1)

GradientArgsFrom(value, i) ==
  IF i > Len(value) THEN <<>>
  ELSE GradientArgsAt(value, i, FnCallEnd(value, i, <<"l","i","n","e","a","r","-","g","r","a","d","i","e","n","t">>))

GradientArgs(value) == GradientArgsFrom(value, 1)

TrimAll(parts) == [i \in 1..Len(parts) |-> Trim(parts[i])]

\* FigmaMapper.splitGradientParts: every piece is trimmed, a blank last piece dropped
DropEmptyLast(pieces) ==
  IF pieces[Len(pieces)] # <<>> THEN pieces ELSE SubSeq(pieces, 1, Len(pieces) - 1)

splitGradientParts(args) == DropEmptyLast(TrimAll(SplitTopLevel(args, 1, 0, <<>>)))

\* /^(\d+)deg$/
DegreesAfter(part, ds) == ds # <<>> /\ SubSeq(part, Len(ds) + 1, Len(part)) = <<"d","e","g">>

IsDegrees(part) == DegreesAfter(part, DigitPrefix(part))

\* parseCSSColor(colorParts[i].trim()) for every colour part
GradientColors(colorParts) ==
  [i \in 1..Len(colorParts) |-> parseCSSColor(Trim(colorParts[i]))]

RECURSIVE GradientStops(_, _)
\* the loop over colorParts from index i (0-based in the source): a stop for
\* every part that parses as a colour, at position i / (length - 1)
GradientStops(colors, i) ==
  IF i > Len(colors) THEN <<>>
  ELSE (IF colors[i].ok
          THEN <<[position |-> IF Len(colors) > 1 THEN Frac(i - 1, Len(colors) - 1)
                               ELSE Num(0),
                  color |-> [r |-> colors[i].r, g |-> colors[i].g,
                             b |-> colors[i].b, a |-> colors[i].a]]>>
          ELSE <<>>) \o GradientStops(colors, i + 1)

\* FigmaMapper.parseLinearGradient: GradientPaint | null.  The paint carries
\* the angle in degrees; its gradientTransform is the rotation by that angle
\* (lines 695-705), which is a function of the angle alone.
GradientPaint(angle, stops) ==
  IF Len(stops) < 2 THEN NoGradient
  ELSE [ok |-> TRUE, threw |-> FALSE, type |-> "GRADIENT_LINEAR", angle |-> angle,
        gradientStops |-> stops]

GradientOver(angle, colors) ==
  IF \E i \in 1..Len(colors) : colors[i].threw THEN [ok |-> FALSE, threw |-> TRUE]
  ELSE GradientPaint(angle, GradientStops(colors, 1))

Directions == <<"t","o"," ","r","i","g","h","t">> :> 90 @@ <<"t","o"," ","l","e","f","t">> :> 270 @@ <<"t","o"," ","b","o","t","t","o","m">> :> 180 @@ <<"t","o"," ","t","o","p">> :> 0

GradientAngle(first, degrees) ==
  IF degrees THEN ParseFloat(DigitPrefix(first))
  ELSE IF first \in DOMAIN Directions THEN Num(Directions[first])
  ELSE Num(180)

GradientFrom(parts, degrees) ==
  GradientOver(GradientAngle(parts[1], degrees),
               GradientColors(IF degrees \/ parts[1] \in DOMAIN Directions
                                THEN Tail(parts) ELSE parts))

GradientOf(parts) ==
  IF Len(parts) < 2 THEN NoGradient ELSE GradientFrom(parts, IsDegrees(parts[1]))

GradientOfArgs(args) ==
  IF args = <<>> THEN NoGradient ELSE GradientOf(splitGradientParts(args))

parseLinearGradient(value) == GradientOfArgs(GradientArgs(value))

\* ------------------------------------------------- mapper: styles -------
\* A design node's properties are a function from the names of the properties
\* the mapper has assigned to their values; a property it never assigned is
\* not in the domain.

Solid(color) ==
  [type |-> "SOLID", color |-> [r |-> color.r, g |-> color.g, b |-> color.b],
   opacity |-> color.a]

Has(props, name) == name \in DOMAIN props

Done(props) == [threw |-> FALSE, props |-> props]

Thrown(props) == [threw |-> TRUE, props |-> props]

\* FigmaMapper.applyBorderRadius
\* parseCSSLength of the named style properties, in order
Lengths(style, names) == [i \in 1..Len(names) |-> Length(Get(style, names[i]))]

CornerRadii(props, r) ==
  IF r[1] = r[2] /\ r[2] = r[3] /\ r[3] = r[4]
    THEN Put(props, "cornerRadius", r[1])
    ELSE ("topLeftRadius" :> r[1] @@ "topRightRadius" :> r[2] @@
          "bottomRightRadius" :> r[3] @@ "bottomLeftRadius" :> r[4]) @@ props

applyBorderRadius(props, style) ==
  CornerRadii(props, Lengths(style, <<<<"b","o","r","d","e","r","T","o","p","L","e","f","t","R","a","d","i","u","s">>, <<"b","o","r","d","e","r","T","o","p","R","i","g","h","t","R","a","d","i","u","s">>,
                                      <<"b","o","r","d","e","r","B","o","t","t","o","m","R","i","g","h","t","R","a","d","i","u","s">>, <<"b","o","r","d","e","r","B","o","t","t","o","m","L","e","f","t","R","a","d","i","u","s">>>>))

RECURSIVE FirstNonEmpty(_)
FirstNonEmpty(values) ==
  IF values = <<>> THEN <<>>
  ELSE IF Head(values) # <<>> THEN Head(values)
  ELSE FirstNonEmpty(Tail(values))

\* FigmaMapper.applyBorders
Stroked(props, borderColor, w, maxWidth) ==
  IF w[1] # w[2] \/ w[2] # w[3] \/ w[3] # w[4]
    THEN ("strokeTopWeight" :> w[1] @@ "strokeRightWeight" :> w[2] @@
          "strokeBottomWeight" :> w[3] @@ "strokeLeftWeight" :> w[4] @@
          "strokes" :> <<Solid(borderColor)>> @@ "strokeWeight" :> maxWidth @@
          "strokeAlign" :> "INSIDE") @@ props
    ELSE ("strokes" :> <<Solid(borderColor)>> @@ "strokeWeight" :> maxWidth @@
          "strokeAlign" :> "INSIDE") @@ props

BorderOf(props, borderColor, w) ==
  IF borderColor.threw THEN Thrown(props)
  ELSE IF ~borderColor.ok \/ isTransparent(borderColor) THEN Done(props)
  ELSE Done(Stroked(props, borderColor, w, MathMax(MathMax(w[1], w[2]), MathMax(w[3], w[4]))))

Bordered(props, style, w) ==
  IF w[1] = Num(0) /\ w[2] = Num(0) /\ w[3] = Num(0) /\ w[4] = Num(0) THEN Done(props)
  ELSE BorderOf(props,
                parseCSSColor(FirstNonEmpty(
                  <<Get(style, <<"b","o","r","d","e","r","T","o","p","C","o","l","o","r">>), Get(style, <<"b","o","r","d","e","r","R","i","g","h","t","C","o","l","o","r">>),
                    Get(style, <<"b","o","r","d","e","r","B","o","t","t","o","m","C","o","l","o","r">>), Get(style, <<"b","o","r","d","e","r","L","e","f","t","C","o","l","o","r">>)>>)),
                w)

applyBorders(props, style) ==
  Bordered(props, style, Lengths(style, <<<<"b","o","r","d","e","r","T","o","p","W","i","d","t","h">>, <<"b","o","r","d","e","r","R","i","g","h","t","W","i","d","t","h">>,
                                          <<"b","o","r","d","e","r","B","o","t","t","o","m","W","i","d","t","h">>, <<"b","o","r","d","e","r","L","e","f","t","W","i","d","t","h">>>>))

EffectOf(shadow, color) ==
  [type |-> IF shadow.inset THEN "INNER_SHADOW" ELSE "DROP_SHADOW",
   color |-> [r |-> color.r, g |-> color.g, b |-> color.b, a |-> color.a],
   offset |-> [x |-> shadow.offsetX, y |-> shadow.offsetY],
   radius |-> shadow.blur,
   spread |-> shadow.spread,
   visible |-> TRUE,
   blendMode |-> "NORMAL"]

\* parseCSSColor(shadow.color) || { r: 0, g: 0, b: 0, a: 0.25 }
OrBlack(parsed) == IF parsed.ok THEN parsed ELSE RGBA(Num(0), Num(0), Num(0), Frac(1, 4))

ShadowEffect(shadow) == EffectOf(shadow, OrBlack(parseCSSColor(shadow.color)))

\* FigmaMapper.applyBoxShadow
WithEffects(props, shadows) ==
  IF Len(shadows) = 0 THEN props
  ELSE Put(props, "effects", [i \in 1..Len(shadows) |-> ShadowEffect(shadows[i])])

applyBoxShadow(props, style) == WithEffects(props, parseBoxShadow(Get(style, <<"b","o","x","S","h","a","d","o","w">>)))

\* FigmaMapper.applyFrameStyles
\* a variant of SolidFill without the test of isTransparent, line 409
SolidFillAnyAlpha(bgColor) == IF bgColor.ok THEN <<Solid(bgColor)>> ELSE <<>>

\* applyFrameStyles, lines 408-417: the fill of the background colour
SolidFill(bgColor) ==
  IF bgColor.ok /\ ~isTransparent(bgColor) THEN <<Solid(bgColor)>> ELSE <<>>

GradientFill(props, gradient) ==
  IF gradient.threw THEN Thrown(props)
  ELSE IF gradient.ok
    THEN Done(Put(props, "fills", <<[type |-> gradient.type, angle |-> gradient.angle,
                                     gradientStops |-> gradient.gradientStops]>>))
  ELSE Done(props)

Background(props, bgColor, image) ==
  IF bgColor.threw THEN Thrown(props)
  ELSE IF image # <<>> /\ StartsWith(image, <<"l","i","n","e","a","r","-","g","r","a","d","i","e","n","t">>)
    THEN GradientFill(Put(props, "fills", SolidFill(bgColor)), parseLinearGradient(image))
  ELSE Done(Put(props, "fills", SolidFill(bgColor)))

Opaque(props, raw, opacity) ==
  IF raw # <<>> /\ ~IsNaN(opacity) THEN Put(props, "opacity", opacity) ELSE props

Clipped(props, overflow) ==
  Put(props, "clipsContent", overflow = <<"h","i","d","d","e","n">> \/ overflow = <<"s","c","r","o","l","l">> \/ overflow = <<"a","u","t","o">>)

AfterBorders(bordered, style) ==
  IF bordered.threw THEN bordered
  ELSE Done(Clipped(applyBoxShadow(bordered.props, style), Get(style, <<"o","v","e","r","f","l","o","w">>)))

AfterBackground(filled, style) ==
  IF filled.threw THEN filled
  ELSE AfterBorders(
         applyBorders(
           applyBorderRadius(
             Opaque(filled.props, Get(style, <<"o","p","a","c","i","t","y">>), ParseFloat(Get(style, <<"o","p","a","c","i","t","y">>))),
             style),
           style),
         style)

applyFrameStyles(props, style) ==
  AfterBackground(Background(props, parseCSSColor(Get(style, <<"b","a","c","k","g","r","o","u","n","d","C","o","l","o","r">>)),
                             Get(style, <<"b","a","c","k","g","r","o","u","n","d","I","m","a","g","e">>)),
                  style)

\* ------------------------------------------------- mapper: fonts --------

FontMap ==
  <<"A","r","i","a","l">> :> <<"I","n","t","e","r">> @@ <<"H","e","l","v","e","t","i","c","a">> :> <<"I","n","t","e","r">> @@ <<"H","e","l","v","e","t","i","c","a"," ","N","e","u","e">> :> <<"I","n","t","e","r">> @@
  <<"-","a","p","p","l","e","-","s","y","s","t","e","m">> :> <<"I","n","t","e","r">> @@ <<"B","l","i","n","k","M","a","c","S","y","s","t","e","m","F","o","n","t">> :> <<"I","n","t","e","r">> @@
  <<"S","e","g","o","e"," ","U","I">> :> <<"I","n","t","e","r">> @@ <<"s","y","s","t","e","m","-","u","i">> :> <<"I","n","t","e","r">> @@ <<"s","a","n","s","-","s","e","r","i","f">> :> <<"I","n","t","e","r">> @@
  <<"s","e","r","i","f">> :> <<"R","o","b","o","t","o"," ","S","e","r","i","f">> @@ <<"m","o","n","o","s","p","a","c","e">> :> <<"R","o","b","o","t","o"," ","M","o","n","o">> @@
  <<"T","i","m","e","s"," ","N","e","w"," ","R","o","m","a","n">> :> <<"R","o","b","o","t","o"," ","S","e","r","i","f">> @@ <<"G","e","o","r","g","i","a">> :> <<"R","o","b","o","t","o"," ","S","e","r","i","f">> @@
  <<"C","o","u","r","i","e","r"," ","N","e","w">> :> <<"R","o","b","o","t","o"," ","M","o","n","o">> @@ <<"C","o","u","r","i","e","r">> :> <<"R","o","b","o","t","o"," ","M","o","n","o">>

\* String.prototype.split(sep)[0]
UpTo(s, j) == IF j = 0 THEN s ELSE SubSeq(s, 1, j - 1)

BeforeFirst(s, sep) == UpTo(s, Leftmost(Occurrences(s, sep)))

\* FigmaMapper.cleanFontFamily
cleanFontFamily(fontFamily) ==
  IF fontFamily = <<>> THEN <<"I","n","t","e","r">>
  ELSE Lookup(FontMap, RemoveChars(Trim(BeforeFirst(fontFamily, <<",">>)), {"\"", "'"}))

\* the family and style FigmaMapper.loadFont and applyTextStyles derive
FontOf(style) ==
  [family |-> cleanFontFamily(Get(style, <<"f","o","n","t","F","a","m","i","l","y">>)),
   style |-> getFigmaFontStyle(parseFontWeight(Get(style, <<"f","o","n","t","W","e","i","g","h","t">>)),
                               Get(style, <<"f","o","n","t","S","t","y","l","e">>) = <<"i","t","a","l","i","c">>)]

\* the key of FigmaMapper.fontLoadErrors
FontKey(font) == font.family \o <<":",":">> \o font.style

DefaultFont == [family |-> <<"I","n","t","e","r">>, style |-> <<"R","e","g","u","l","a","r">>]

\* FigmaMapper.applyTextStyles; loaded is the set of fonts the host has
\* loaded: assigning a fontName that is not loaded throws and is caught
WithFont(props, font, loaded) ==
  IF font \in loaded THEN Put(props, "fontName", font) ELSE props

Sized(props, fontSize) ==
  IF Less(Num(0), fontSize) THEN Put(props, "fontSize", fontSize) ELSE props

Leaded(props, raw, lh) ==
  IF raw # <<>> /\ Less(Num(0), lh)
    THEN Put(props, "lineHeight", [value |-> lh, unit |-> "PIXELS"]) ELSE props

Spaced(props, raw, ls) ==
  IF raw # <<>> THEN Put(props, "letterSpacing", [value |-> ls, unit |-> "PIXELS"])
  ELSE props

Coloured(props, color, style) ==
  IF color.threw THEN Thrown(props)
  ELSE Done(("textAlignHorizontal" :> mapTextAlign(Get(style, <<"t","e","x","t","A","l","i","g","n">>)) @@
             "textDecoration" :> mapTextDecoration(Get(style, <<"t","e","x","t","D","e","c","o","r","a","t","i","o","n">>)) @@
             "textCase" :> mapTextCase(Get(style, <<"t","e","x","t","T","r","a","n","s","f","o","r","m">>))) @@
            (IF color.ok THEN Put(props, "fills", <<Solid(color)>>) ELSE props))

Measured(props, style, l) ==
  Spaced(Leaded(Sized(props, l[1]), Get(style, <<"l","i","n","e","H","e","i","g","h","t">>), l[2]),
         Get(style, <<"l","e","t","t","e","r","S","p","a","c","i","n","g">>), l[3])

applyTextStyles(props, style, loaded) ==
  Coloured(Measured(WithFont(props, FontOf(style), loaded), style,
                    Lengths(style, <<<<"f","o","n","t","S","i","z","e">>, <<"l","i","n","e","H","e","i","g","h","t">>, <<"l","e","t","t","e","r","S","p","a","c","i","n","g">>>>)),
           parseCSSColor(Get(style, <<"c","o","l","o","r">>)), style)


\* ------------------------------------------------- mapper: names --------

RECURSIVE SplitOn(_, _, _, _)
\* String.prototype.split(sep) for a one-character separator
SplitOn(s, sep, i, current) ==
  IF i > Len(s) THEN <<current>>
  ELSE IF s[i] = sep THEN <<current>> \o SplitOn(s, sep, i + 1, <<>>)
  ELSE SplitOn(s, sep, i + 1, Append(current, s[i]))

\* Array.prototype.filter(Boolean) on strings
FilterNonEmpty(parts) == SelectSeq(parts, LAMBDA p : p # <<>>)

SemanticTags ==
  <<"n","a","v">> :> <<"N","a","v","i","g","a","t","i","o","n">> @@ <<"h","e","a","d","e","r">> :> <<"H","e","a","d","e","r">> @@ <<"f","o","o","t","e","r">> :> <<"F","o","o","t","e","r">> @@
  <<"m","a","i","n">> :> <<"M","a","i","n">> @@ <<"a","s","i","d","e">> :> <<"S","i","d","e","b","a","r">> @@ <<"s","e","c","t","i","o","n">> :> <<"S","e","c","t","i","o","n">> @@
  <<"a","r","t","i","c","l","e">> :> <<"A","r","t","i","c","l","e">> @@ <<"u","l">> :> <<"L","i","s","t">> @@ <<"o","l">> :> <<"L","i","s","t">> @@ <<"l","i">> :> <<"L","i","s","t","I","t","e","m">> @@
  <<"b","u","t","t","o","n">> :> <<"B","u","t","t","o","n">> @@ <<"a">> :> <<"L","i","n","k">> @@ <<"f","o","r","m">> :> <<"F","o","r","m">> @@ <<"t","a","b","l","e">> :> <<"T","a","b","l","e">> @@
  <<"t","h","e","a","d">> :> <<"T","a","b","l","e","H","e","a","d">> @@ <<"t","b","o","d","y">> :> <<"T","a","b","l","e","B","o","d","y">> @@ <<"t","r">> :> <<"T","a","b","l","e","R","o","w">> @@
  <<"t","d">> :> <<"T","a","b","l","e","C","e","l","l">> @@ <<"t","h">> :> <<"T","a","b","l","e","H","e","a","d","e","r">>

\* FigmaMapper.generateNodeName
generateNodeName(element) ==
  LET tag == element.tag
      id == Get(element.attributes, <<"i","d">>)
      classes == JoinWith(Slice(FilterNonEmpty(SplitOn(Get(element.attributes, <<"c","l","a","s","s">>),
                                                       " ", 1, <<>>)), 1, 2), <<".">>)
  IN IF id # <<>> THEN tag \o <<"#">> \o id
     ELSE IF classes # <<>> THEN tag \o <<".">> \o classes
     ELSE IF tag \in DOMAIN SemanticTags THEN SemanticTags[tag]
     ELSE tag

\* the end of the scheme of a URL string: the place of its first ":" when
\* letters alone come before it, 0 otherwise
SchemeEnd(s) ==
  LET colons == Occurrences(s, <<":">>)
      c == SetMin(colons)
  IN IF colons = {} THEN 0
     ELSE IF c > 1 /\ \A i \in 1..(c - 1) : s[i] \in Range(UpperLetters) \cup Range(LowerLetters)
       THEN c ELSE 0

RECURSIVE SkipSlashes(_, _)
SkipSlashes(s, i) == IF i <= Len(s) /\ s[i] = "/" THEN SkipSlashes(s, i + 1) ELSE i

RECURSIVE HostEnd(_, _)
HostEnd(s, i) ==
  IF i <= Len(s) /\ s[i] \notin {"/", "?", "#", ":", " "} THEN HostEnd(s, i + 1) ELSE i

\* new URL(s).hostname: the constructor throws on a string without a scheme
\* and on an http(s) URL without a host
URLHostname(s) ==
  LET c == SchemeEnd(s)
      scheme == ToLowerCase(SubSeq(s, 1, c - 1))
      special == scheme \in {<<"h","t","t","p">>, <<"h","t","t","p","s">>}
      from == IF special THEN SkipSlashes(s, c + 1)
              ELSE IF Slice(s, c + 1, c + 2) = <<"/","/">> THEN c + 3 ELSE 0
      host == IF from = 0 THEN <<>> ELSE ToLowerCase(SubSeq(s, from, HostEnd(s, from) - 1))
  IN IF c = 0 \/ (special /\ host = <<>>) THEN [threw |-> TRUE]
     ELSE [threw |-> FALSE, hostname |-> host]

RECURSIVE countFrom(_, _)
\* the loop of FigmaMapper.countNodes before the final Math.max
countFrom(nodes, i) ==
  IF i > Len(nodes) THEN 0
  ELSE 1 + (IF nodes[i].type = "element" THEN countFrom(nodes[i].children, 1) ELSE 0)
         + countFrom(nodes, i + 1)

\* a count of the nodes at the top only
countTop(nodes) == IF Len(nodes) > 1 THEN Len(nodes) ELSE 1

\* FigmaMapper.countNodes
countNodes(nodes) == IF countFrom(nodes, 1) > 1 THEN countFrom(nodes, 1) ELSE 1

\* the percentage the onProgress callback of mapToFigma reports
ProgressPercent(processed, totalChildren) == 20 + ((processed * 60) \div totalChildren)


\* ------------------------------------------------- mapper: host nodes ---
\* The nodes a run has created in the host document, in creation order; a
\* node's id is its place in that order.  parent is the id of the node it
\* was appended to, 0 while it lies directly on the page; src is the place
\* of the snapshot node it was made from (the child indices from the root).

Node(kind, role, src, props) ==
  [kind |-> kind, role |-> role, src |-> src, parent |-> 0, children |-> <<>>,
   props |-> props]

\* a parent that takes a new child as its first
insertFirst(h, parent, child) ==
  IF child = 0 THEN h
  ELSE [h EXCEPT ![parent].children = <<child>> \o @, ![child].parent = parent]

\* parent.appendChild(child); a null child is not appended
appendChild(h, parent, child) ==
  IF child = 0 THEN h
  ELSE [h EXCEPT ![parent].children = Append(@, child), ![child].parent = parent]

Assign(h, id, props) == [h EXCEPT ![id].props = props]

One == Frac(1, 1)

\* a variant of Positioned that assigns the snapshot's own coordinates
PositionedAbsolutely(props, bounds, parentBounds) ==
  ("x" :> MathRound(bounds.x) @@ "y" :> MathRound(bounds.y)) @@ props

\* node.x = Math.round(bounds.x - parentBounds.x), and y alike
Positioned(props, bounds, parentBounds) ==
  ("x" :> MathRound(Minus(bounds.x, parentBounds.x)) @@
   "y" :> MathRound(Minus(bounds.y, parentBounds.y))) @@ props

\* a resize to the rounded size of the box
ResizedRounded(props, bounds) ==
  ("width" :> MathRound(bounds.width) @@ "height" :> MathRound(bounds.height)) @@ props

\* node.resize(Math.max(Math.round(bounds.width), 1), Math.max(Math.round(bounds.height), 1))
Resized(props, bounds) ==
  ("width" :> MathMax(MathRound(bounds.width), One) @@
   "height" :> MathMax(MathRound(bounds.height), One)) @@ props

\* FigmaMapper.mapElement, lines 128-140, and createTextFrame, lines 196-208:
\* the frame of an element before its children are mapped
Framed(name, element, parentBounds) ==
  applyFrameStyles(
    Positioned(Resized("name" :> name, element.boundingBox),
               element.boundingBox, parentBounds),
    element.computedStyle)

FrameProps(element, parentBounds) == Framed(generateNodeName(element), element, parentBounds)

\* FigmaMapper.createTextNode, lines 166-171
TextProps(textNode, parentBounds) ==
  Positioned("name" :> Substring(textNode.content, 0, 40), textNode.boundingBox, parentBounds)

\* FigmaMapper.createTextNode, lines 177-184: the content is assigned, which
\* the host refuses while it has no font loaded at all, then styles and size
\* a variant of TextSized that sizes a text only when its own font was set
TextSizedByFont(styled, bounds) ==
  IF styled.threw THEN styled
  ELSE IF Has(styled.props, "fontName")
    THEN Done(Put(Resized(styled.props, bounds), "textAutoResize", "HEIGHT"))
  ELSE Done(Put(styled.props, "textAutoResize", "HEIGHT"))

\* FigmaMapper.createTextNode, lines 183-184
TextSized(styled, bounds) ==
  IF styled.threw THEN styled
  ELSE Done(Put(Resized(styled.props, bounds), "textAutoResize", "HEIGHT"))

TextFilled(props, textNode, loaded) ==
  IF loaded = {} THEN Thrown(props)
  ELSE TextSized(applyTextStyles(Put(props, "characters", textNode.content),
                                 textNode.computedStyle, loaded),
                 textNode.boundingBox)

\* FigmaMapper.mapElement, lines 114-116
hasOnlyText(children) ==
  /\ Len(children) > 0
  /\ \A i \in 1..Len(children) : children[i].type = "text"
  /\ \E i \in 1..Len(children) : Trim(children[i].content) # <<>>

\* FigmaMapper.mapElement, lines 120-123
textContentOf(children) ==
  JoinWith([i \in 1..Len(children) |-> children[i].content], <<" ">>)

\* FigmaMapper.createTextFrame, lines 215-216 and 231-232: the text inside
LabelFilled(props, content, style, loaded) ==
  IF loaded = {} THEN Thrown(props)
  ELSE applyTextStyles(Put(props, "characters", content), style, loaded)

\* FigmaMapper.createTextFrame, lines 219-229: the frame's own layout
Paddings(style) ==
  Lengths(style, <<<<"p","a","d","d","i","n","g","T","o","p">>, <<"p","a","d","d","i","n","g","R","i","g","h","t">>, <<"p","a","d","d","i","n","g","B","o","t","t","o","m">>, <<"p","a","d","d","i","n","g","L","e","f","t">>>>)

Padded(props, p) ==
  ("paddingTop" :> p[1] @@ "paddingRight" :> p[2] @@
   "paddingBottom" :> p[3] @@ "paddingLeft" :> p[4]) @@ props

TextFrameLayout(props, style) ==
  ("layoutMode" :> "VERTICAL" @@ "primaryAxisAlignItems" :> "MIN" @@
   "counterAxisAlignItems" :> "MIN" @@ "layoutSizingHorizontal" :> "FIXED" @@
   "layoutSizingVertical" :> "HUG") @@ Padded(props, Paddings(style))

\* x || 8 on a number
OrEight(x) == IF x = Num(0) \/ IsNaN(x) THEN Frac(8, 1) ELSE x

\* FigmaMapper.createFormElement, lines 369-372
SidePadded(props, p) ==
  ("layoutMode" :> "HORIZONTAL" @@ "counterAxisAlignItems" :> "CENTER" @@
   "paddingLeft" :> OrEight(p[1]) @@ "paddingRight" :> OrEight(p[2])) @@ props

FormLayout(props, style) ==
  SidePadded(props, Lengths(style, <<<<"p","a","d","d","i","n","g","L","e","f","t">>, <<"p","a","d","d","i","n","g","R","i","g","h","t">>>>))

\* FigmaMapper.createFormElement, lines 349-359
FormName(tag, type) == tag \o (IF type # <<>> THEN <<"[">> \o type \o <<"]">> ELSE <<>>)

FormProps(element, parentBounds) ==
  Framed(FormName(element.tag, Get(element.attributes, <<"t","y","p","e">>)), element, parentBounds)

\* attributes.placeholder || attributes.value || ''
textValueOf(attributes) ==
  FirstNonEmpty(<<Get(attributes, <<"p","l","a","c","e","h","o","l","d","e","r">>), Get(attributes, <<"v","a","l","u","e">>)>>)

\* FigmaMapper.createImageNode, lines 248-256
Named(name, default, bounds, parentBounds) ==
  Positioned(Resized("name" :> (IF name # <<>> THEN name ELSE default), bounds),
             bounds, parentBounds)

ImageProps(element, parentBounds) ==
  Named(Get(element.attributes, <<"a","l","t">>), <<"I","m","a","g","e">>, element.boundingBox, parentBounds)

ImagePaint(imageHash) == [type |-> "IMAGE", imageHash |-> imageHash, scaleMode |-> "FILL"]

\* the hash the host gives the bytes it was handed: a function of the bytes,
\* which are a function of the URL they were fetched from
HashOf(url) == <<"h",":">> \o url

\* FigmaMapper.createSvgNode, lines 307-314 when the host imports the markup,
\* lines 318-323 when it refuses it
Unsupported(bounds, parentBounds) ==
  Positioned(Resized("name" :> <<"S","V","G"," ","(","u","n","s","u","p","p","o","r","t","e","d",")">> @@
                     "fills" :> <<[type |-> "SOLID",
                                   color |-> [r |-> Frac(17, 20), g |-> Frac(17, 20),
                                              b |-> Frac(17, 20)]]>>,
                     bounds),
             bounds, parentBounds)

SvgProps(element, parentBounds, imported) ==
  IF imported
    THEN Named(Get(element.attributes, <<"a","r","i","a","-","l","a","b","e","l">>), <<"S","V","G">>, element.boundingBox, parentBounds)
    ELSE Unsupported(element.boundingBox, parentBounds)

\* FigmaMapper.createHrNode
\* Math.round(bounds.height) || 1
OrOne(x) == IF x = Num(0) \/ IsNaN(x) THEN One ELSE x

\* borderColor || bgColor || { r: 0.8, g: 0.8, b: 0.8, a: 1 }
HrColor(borderColor, bgColor) ==
  IF borderColor.ok THEN borderColor
  ELSE IF bgColor.ok THEN bgColor
  ELSE RGBA(Frac(4, 5), Frac(4, 5), Frac(4, 5), One)

HrFilled(placed, borderColor, bgColor) ==
  IF borderColor.threw \/ bgColor.threw THEN Thrown(placed)
  ELSE Done(Put(placed, "fills", <<Solid(HrColor(borderColor, bgColor))>>))

HrSized(bounds) ==
  "name" :> <<"D","i","v","i","d","e","r">> @@ "width" :> MathMax(MathRound(bounds.width), One) @@
  "height" :> MathMax(OrOne(MathRound(bounds.height)), One)

HrColors(style) ==
  <<parseCSSColor(FirstNonEmpty(<<Get(style, <<"b","o","r","d","e","r","T","o","p","C","o","l","o","r">>), Get(style, <<"b","o","r","d","e","r","C","o","l","o","r">>)>>)),
    parseCSSColor(Get(style, <<"b","a","c","k","g","r","o","u","n","d","C","o","l","o","r">>))>>

HrOf(bounds, parentBounds, colors) ==
  HrFilled(Positioned(HrSized(bounds), bounds, parentBounds), colors[1], colors[2])

HrProps(element, parentBounds) ==
  HrOf(element.boundingBox, parentBounds, HrColors(element.computedStyle))

\* the layout properties FigmaMapper.tryApplyAutoLayout assigns to the frame
Wrapped(props, wrap) ==
  IF wrap = <<"w","r","a","p">> \/ wrap = <<"w","r","a","p","-","r","e","v","e","r","s","e">> THEN Put(props, "layoutWrap", "WRAP") ELSE props

ItemSpaced(props, gap) ==
  IF Less(Num(0), gap) THEN Put(props, "itemSpacing", gap) ELSE props

\* a variant of CounterSpaced without the test of layoutWrap, line 622
CounterSpacedAlways(props, rowGap) ==
  IF Less(Num(0), rowGap) THEN Put(props, "counterAxisSpacing", rowGap) ELSE props

CounterSpaced(props, rowGap) ==
  IF Has(props, "layoutWrap") /\ props["layoutWrap"] = "WRAP" /\ Less(Num(0), rowGap)
    THEN Put(props, "counterAxisSpacing", rowGap) ELSE props

\* parseCSSLength(style.gap || style.columnGap), parseCSSLength(style.rowGap || style.gap)
Gaps(style) ==
  [i \in 1..2 |->
     Length(FirstNonEmpty(<<<<Get(style, <<"g","a","p">>), Get(style, <<"c","o","l","u","m","n","G","a","p">>)>>,
                            <<Get(style, <<"r","o","w","G","a","p">>), Get(style, <<"g","a","p">>)>>>>[i]))]

Gapped(props, gaps) == CounterSpaced(ItemSpaced(props, gaps[1]), gaps[2])

Aligned(props, direction, justify, align) ==
  ("layoutMode" :> (IF direction = <<"c","o","l","u","m","n">> \/ direction = <<"c","o","l","u","m","n","-","r","e","v","e","r","s","e">>
                      THEN "VERTICAL" ELSE "HORIZONTAL") @@
   "primaryAxisAlignItems" :> (IF justify = <<"c","e","n","t","e","r">> THEN "CENTER"
                               ELSE IF justify = <<"f","l","e","x","-","e","n","d">> \/ justify = <<"e","n","d">> THEN "MAX"
                               ELSE IF justify = <<"s","p","a","c","e","-","b","e","t","w","e","e","n">> THEN "SPACE_BETWEEN"
                               ELSE "MIN") @@
   "counterAxisAlignItems" :> (IF align = <<"c","e","n","t","e","r">> THEN "CENTER"
                               ELSE IF align = <<"f","l","e","x","-","e","n","d">> \/ align = <<"e","n","d">> THEN "MAX"
                               ELSE IF align = <<"b","a","s","e","l","i","n","e">> THEN "BASELINE"
                               ELSE "MIN") @@
   "layoutSizingHorizontal" :> "FIXED" @@ "layoutSizingVertical" :> "FIXED") @@ props

AutoLayout(props, style) ==
  Aligned(Padded(Gapped(Wrapped(props, Get(style, <<"f","l","e","x","W","r","a","p">>)), Gaps(style)),
                 Paddings(style)),
          Get(style, <<"f","l","e","x","D","i","r","e","c","t","i","o","n">>), Get(style, <<"j","u","s","t","i","f","y","C","o","n","t","e","n","t">>),
          Get(style, <<"a","l","i","g","n","I","t","e","m","s">>))

\* an auto-layout that leaves the sizing of the children as they were built
KeepsSizing(props) == props

\* tryApplyAutoLayout, lines 639-644: the sizing of a child
FixedSizing(props) ==
  ("layoutSizingHorizontal" :> "FIXED" @@ "layoutSizingVertical" :> "FIXED") @@ props

\* a variant of tryApplyAutoLayout without the test of display, line 575
tryApplyAutoLayoutAlways(h, id, style) ==
  [n \in 1..Len(h) |->
     IF n = id THEN [h[n] EXCEPT !.props = AutoLayout(@, style)]
     ELSE IF h[n].parent = id THEN [h[n] EXCEPT !.props = FixedSizing(@)]
     ELSE h[n]]

\* FigmaMapper.tryApplyAutoLayout on the frame with the given id
tryApplyAutoLayout(h, id, style) ==
  IF Get(style, <<"d","i","s","p","l","a","y">>) # <<"f","l","e","x">> /\ Get(style, <<"d","i","s","p","l","a","y">>) # <<"i","n","l","i","n","e","-","f","l","e","x">> THEN h
  ELSE [n \in 1..Len(h) |->
          IF n = id THEN [h[n] EXCEPT !.props = AutoLayout(@, style)]
          ELSE IF h[n].parent = id THEN [h[n] EXCEPT !.props = FixedSizing(@)]
          ELSE h[n]]


\* ------------------------------------------------- state ----------------

\* the number of imports of the snapshot the controller is sent
MaxRuns == 2

Runs == 1..MaxRuns

VARIABLES
  live,            \* Capture: the rendered document body
  via,             \* Capture: which capture has run, "none" before
  dom,             \* the Document Snapshot (Capture's output, the Mapper's input)
  nodes,           \* per run, the host nodes it has created
  pc,              \* per run, "idle", "mapping", "done" or "failed"
  stack,           \* per run, the frames whose children are being mapped
  pending,         \* per run, the host call the run is waiting on
  imageCache,      \* per run, FigmaMapper.imageCache
  fontLoadErrors,  \* per run, FigmaMapper.fontLoadErrors
  processed,       \* per run, the node count of mapToFigma
  ui,              \* per run, the messages sent to the UI
  loaded,          \* the fonts the host has loaded
  pageOrder,       \* the runs in the order their root frames came onto the page
  fontLog,         \* per run, the attempts of its latest call of loadFont
  moves,           \* per run, the parity of the steps its mapToFigma has taken
  callback,        \* per run, whether its FigmaMapper was given a progress callback
  input,           \* translators: the function called and its arguments
  output,          \* translators: what the call returned, Pending before
  parsePc,         \* HTMLParser.parse: its position
  iframe,          \* HTMLParser.iframe: whether the sandbox is in the UI document
  images,          \* HTMLParser.parse: the img elements of the written document
  steps            \* HTMLParser.parse: the steps taken so far, in order

vars ==
  <<live, via, dom, nodes, pc, stack, pending, imageCache, fontLoadErrors, processed,
    ui, loaded, pageOrder, fontLog, moves, callback, input, output, parsePc, iframe, images, steps>>

captureVars == <<live, via>>

translatorVars == <<input, output>>

parserVars == <<parsePc, iframe, images, steps>>

\* what the Capture of a rendered body and the Mapper leave alone
otherVars == <<translatorVars, parserVars>>

mapperVars ==
  <<nodes, pc, stack, pending, imageCache, fontLoadErrors, processed, ui, loaded,
    pageOrder, fontLog, moves, callback>>

NoCall == [op |-> "none"]

\* no call of loadFont yet
NoLoad == [node |-> 0, recorded |-> FALSE, attempts |-> <<>>]

NotCaptured == [type |-> "none"]

\* no import has begun
NoImport ==
  /\ nodes = [r \in Runs |-> <<>>]
  /\ pc = [r \in Runs |-> "idle"]
  /\ stack = [r \in Runs |-> <<>>]
  /\ pending = [r \in Runs |-> NoCall]
  /\ imageCache = [r \in Runs |-> EmptyObject]
  /\ fontLoadErrors = [r \in Runs |-> {}]
  /\ processed = [r \in Runs |-> 0]
  /\ ui = [r \in Runs |-> <<>>]
  /\ loaded = {}
  /\ pageOrder = <<>>
  /\ fontLog = [r \in Runs |-> NoLoad]
  /\ moves = [r \in Runs |-> 0]

\* handleImportDOM, lines 126-128: the controller gives every mapper a callback
MapperIdle ==
  /\ NoImport
  /\ callback = [r \in Runs |-> TRUE]

NotCalled == [fn |-> "none"]

Pending == [done |-> FALSE]

Return(value) == [done |-> TRUE, value |-> value]

TranslatorsIdle ==
  /\ input = NotCalled
  /\ output = Pending

ParserIdle ==
  /\ parsePc = "idle"
  /\ iframe = FALSE
  /\ images = <<>>
  /\ steps = <<>>

\* ------------------------------------------------- Capture --------------

\* HTMLParser.parse, lines 30-36: the body of the sandboxed document is serialized
ParserCapture ==
  /\ via = "none"
  /\ via' = "parser"
  /\ dom' = serializeDOM(live)
  /\ UNCHANGED <<otherVars, live, mapperVars>>

\* popup.js captureDOM: the page's body is serialized
ExtensionCapture ==
  /\ via = "none"
  /\ via' = "extension"
  /\ dom' = captureDOM(live)
  /\ UNCHANGED <<otherVars, live, mapperVars>>

InitCapture ==
  /\ live \in CaptureDocs
  /\ via = "none"
  /\ dom = NotCaptured
  /\ MapperIdle
  /\ TranslatorsIdle
  /\ ParserIdle

NextCapture == ParserCapture \/ ExtensionCapture

SpecCapture == InitCapture /\ [][NextCapture]_vars


\* ------------------------------------------------- Capture: properties --

Captured == via # "none" /\ dom # CaptureFailed

RECURSIVE LiveElements(_, _)
\* the elements below a live element, each with whether it and every element
\* between it and that element is rendered: displayed, visible and with a box
\* that is not 0 x 0
LiveElements(element, shownAbove) ==
  UNION { LET child == element.childNodes[i]
              shown == /\ shownAbove
                       /\ child.style[<<"d","i","s","p","l","a","y">>] # <<"n","o","n","e">>
                       /\ child.style[<<"v","i","s","i","b","i","l","i","t","y">>] # <<"h","i","d","d","e","n">>
                       /\ ~(child.rect.width = Num(0) /\ child.rect.height = Num(0))
          IN {[element |-> child, shown |-> shown]} \cup LiveElements(child, shown)
          : i \in {j \in 1..Len(element.childNodes) :
                     element.childNodes[j].nodeType = "ELEMENT_NODE"} }

RECURSIVE SnapshotElements(_)
\* the Element nodes below a snapshot node
SnapshotElements(node) ==
  UNION { {node.children[i]} \cup SnapshotElements(node.children[i])
          : i \in {j \in 1..Len(node.children) : node.children[j].type = "element"} }

IdOf(attributes) == attributes[<<"i","d">>]

\* C5: every Element below the root of a Capture output was, when captured,
\* displayed, visible and not 0 x 0, and so was every element between it and
\* the root; an element that was not is absent from the output together with
\* all its descendants, whatever its attributes and its children's styles.
C5_PrunedSubtrees ==
  Captured =>
    /\ \A e \in SnapshotElements(dom) :
         \E l \in LiveElements(live, TRUE) :
           IdOf(l.element.attributes) = IdOf(e.attributes) /\ l.shown
    /\ \A l \in LiveElements(live, TRUE) :
         ~l.shown => \A e \in SnapshotElements(dom) :
                       IdOf(e.attributes) # IdOf(l.element.attributes)

\* a capture of a body that holds both an element that is kept and an element
\* that is not rendered but has attributes and a rendered, visible child
C5_Witness ==
  /\ Captured
  /\ SnapshotElements(dom) # {}
  /\ \E l \in LiveElements(live, TRUE) :
       /\ ~l.shown
       /\ l.element.rect = Vanished
       /\ <<"t","i","t","l","e">> \in DOMAIN l.element.attributes
       /\ \E k \in LiveElements(l.element, TRUE) : k.shown

SnapshotNodes(root) ==
  {root} \cup SnapshotElements(root) \cup
  UNION { {e.children[i] : i \in 1..Len(e.children)} : e \in {root} \cup SnapshotElements(root) }

TrackedProps == IF via = "parser" THEN Range(ParserProps) ELSE Range(ExtensionProps)

\* C6: in every node of a Capture output the Style Map has the keys display
\* and position, every other key in it has a value that is non-empty and none
\* of none, normal, auto, and all its keys are tracked properties.
C6_StyleMapKeys ==
  Captured =>
    \A n \in SnapshotNodes(dom) :
      /\ {<<"d","i","s","p","l","a","y">>, <<"p","o","s","i","t","i","o","n">>} \subseteq DOMAIN n.computedStyle
      /\ DOMAIN n.computedStyle \subseteq TrackedProps
      /\ \A k \in DOMAIN n.computedStyle \ {<<"d","i","s","p","l","a","y">>, <<"p","o","s","i","t","i","o","n">>} :
           n.computedStyle[k] \notin {<<>>, <<"n","o","n","e">>, <<"n","o","r","m","a","l">>, <<"a","u","t","o">>}

\* the parser has captured a body whose display is none and whose min-width
\* is auto: display is in the root's Style Map with that value, minWidth is not
C6_Witness ==
  /\ via = "parser"
  /\ live.style[<<"d","i","s","p","l","a","y">>] = <<"n","o","n","e">>
  /\ live.style[<<"m","i","n","-","w","i","d","t","h">>] = <<"a","u","t","o">>
  /\ dom.computedStyle[<<"d","i","s","p","l","a","y">>] = <<"n","o","n","e">>
  /\ <<"m","i","n","W","i","d","t","h">> \notin DOMAIN dom.computedStyle
  /\ dom.children # <<>>

\* the live element a snapshot element (or the root) was made from
LiveOf(e) ==
  IF e = dom THEN live
  ELSE (CHOOSE l \in LiveElements(live, TRUE) :
          IdOf(l.element.attributes) = IdOf(e.attributes)).element

\* the text nodes among the child nodes of a live element that have
\* non-whitespace content (and, in the parser, a range box that is not 0 x 0)
LiveTexts(element) ==
  SelectSeq(element.childNodes,
            LAMBDA c : /\ c.nodeType = "TEXT_NODE"
                       /\ \E i \in 1..Len(c.textContent) : c.textContent[i] \notin Whitespace
                       /\ via = "parser" =>
                            ~(c.rect.width = Num(0) /\ c.rect.height = Num(0)))

SnapshotTexts(e) == SelectSeq(e.children, LAMBDA c : c.type = "text")

\* C7: every Text node of a Capture output has trimmed, non-empty content,
\* the Style Map of the element that owns it and the box of the text's range,
\* not the owner's; the Text nodes of an element are its non-blank texts in
\* order, so text that is empty after trimming gives no node.
C7_TextNodes ==
  Captured =>
    \A e \in {dom} \cup SnapshotElements(dom) :
      LET texts == SnapshotTexts(e)
          lives == LiveTexts(LiveOf(e))
      IN /\ Len(texts) = Len(lives)
         /\ \A i \in 1..Len(texts) :
              /\ texts[i].content # <<>>
              /\ texts[i].content[1] \notin Whitespace
              /\ texts[i].content[Len(texts[i].content)] \notin Whitespace
              /\ Includes(lives[i].textContent, texts[i].content)
              /\ texts[i].computedStyle = e.computedStyle
              /\ texts[i].boundingBox =
                   [x |-> lives[i].rect.left, y |-> lives[i].rect.top,
                    width |-> lives[i].rect.width, height |-> lives[i].rect.height]
              /\ lives[i].rect # LiveOf(e).rect

\* a capture that met padded text, which it trimmed and boxed by its range,
\* and blank text, which it dropped
C7_Witness ==
  /\ Captured
  /\ \E i \in 1..Len(live.childNodes) : live.childNodes[i] = TextNode(<<" "," "," ">>, RangeRect)
  /\ \E i \in 1..Len(dom.children) :
       /\ dom.children[i].type = "text"
       /\ dom.children[i].content = <<"h","i">>
       /\ dom.children[i].boundingBox.x = RangeRect.left
  /\ Len(dom.children) < Len(live.childNodes)


\* ------------------------------------------------- mapped documents -----

Box(l, t, w, h) == Rect(Frac(l, 2), Frac(t, 2), Frac(w, 2), Frac(h, 2))

\* the boxes of the mapped documents, in half pixels: the body does not start
\* at the origin, and origins and sizes are not all whole numbers
BodyBox == Box(1, 4, 200, 100)

OuterBox == Box(17, 20, 120, 41)

FirstBox == Box(20, 25, 40, 20)

SecondBox == Box(64, 27, 41, 1)

TextBox == Box(23, 29, 15, 24)

\* boxes without a width and without a height
ThinBox == Box(16, 16, 0, 3)

FlatBox == Box(16, 30, 40, 0)

Serif == <<"f","o","n","t","-","f","a","m","i","l","y">> :> <<"G","e","o","r","g","i","a",","," ","s","e","r","i","f">> @@ <<"f","o","n","t","-","w","e","i","g","h","t">> :> <<"7","0","0">> @@ <<"c","o","l","o","r">> :> <<"r","g","b","(","0",","," ","0",","," ","0",")">>

Leaf(tagName, id, style, rect, text) ==
  Element(tagName, <<"i","d">> :> id, Style(style), rect, <<TextNode(text, TextBox)>>)

Hr(id, rect) ==
  Element(<<"H","R">>, <<"i","d">> :> id, Style(<<"b","o","r","d","e","r","-","t","o","p","-","c","o","l","o","r">> :> <<"r","g","b","(","1","2","8",","," ","1","2","8",","," ","1","2","8",")">>), rect, <<>>)

Img(id, src, rect) ==
  Element(<<"I","M","G">>, (IF src = <<>> THEN EmptyObject ELSE <<"s","r","c">> :> src) @@ <<"i","d">> :> id,
          Style(<<"b","o","r","d","e","r","-","t","o","p","-","l","e","f","t","-","r","a","d","i","u","s">> :> <<"4","p","x">>), rect, <<>>)

Svg(id, rect) ==
  Element(<<"s","v","g">>, <<"i","d">> :> id @@ <<"a","r","i","a","-","l","a","b","e","l">> :> <<"l","o","g","o">>, Style(EmptyObject), rect,
          <<Element(<<"p","a","t","h">>, <<"d">> :> <<"M","0"," ","0">>, Style(EmptyObject), rect, <<>>)>>)

TextArea(id, rect) ==
  Element(<<"T","E","X","T","A","R","E","A">>, <<"i","d">> :> id, Style(EmptyObject), rect, <<TextNode(<<"a","b","c">>, TextBox)>>)

FlexRow(id, style, kids) ==
  Element(<<"D","I","V">>, <<"i","d">> :> id, Style(style @@ <<"d","i","s","p","l","a","y">> :> <<"f","l","e","x">> @@ <<"g","a","p">> :> <<"8","p","x">>),
          OuterBox, kids)

ColumnCenter ==
  <<"d","i","s","p","l","a","y">> :> <<"f","l","e","x">> @@ <<"f","l","e","x","-","d","i","r","e","c","t","i","o","n">> :> <<"c","o","l","u","m","n">> @@ <<"j","u","s","t","i","f","y","-","c","o","n","t","e","n","t">> :> <<"c","e","n","t","e","r">>

\* the child nodes a mapped body can have at its first place: one for every
\* branch of the Mapper's dispatch, containers that are and are not flex
\* containers, and childless elements with the backgrounds a browser computes
FirstKids ==
  { TextNode(<<" ","h","i"," ">>, TextBox),
    Leaf(<<"P">>, <<"n","1">>, Serif @@ <<"p","a","d","d","i","n","g","-","t","o","p">> :> <<"4","p","x">>, OuterBox, <<"a"," "," ","b">>),
    Leaf(<<"D","I","V">>, <<"n","1">>, ColumnCenter, OuterBox, <<"t">>),
    Element(<<"D","I","V">>, <<"i","d">> :> <<"n","1">>, Style(<<"b","a","c","k","g","r","o","u","n","d","-","c","o","l","o","r">> :> <<"r","g","b","(","2","5","5",","," ","0",","," ","0",")">>), OuterBox,
            <<Hr(<<"n","1","a">>, FirstBox), Img(<<"n","1","b">>, <<>>, SecondBox)>>),
    Element(<<"S","E","C","T","I","O","N">>, EmptyObject, Style(ColumnCenter @@ <<"p","a","d","d","i","n","g","-","l","e","f","t">> :> <<"2","p","x">>), OuterBox,
            <<Hr(<<"n","1","a">>, FirstBox), Img(<<"n","1","b">>, <<>>, SecondBox)>>),
    Element(<<"D","I","V">>, <<"c","l","a","s","s">> :> <<"a"," ","b"," ","c">>, Style(<<"d","i","s","p","l","a","y">> :> <<"i","n","l","i","n","e","-","f","l","e","x">> @@ <<"f","l","e","x","-","d","i","r","e","c","t","i","o","n">> :> <<"c","o","l","u","m","n">>
                                @@ <<"j","u","s","t","i","f","y","-","c","o","n","t","e","n","t">> :> <<"c","e","n","t","e","r">> @@ <<"a","l","i","g","n","-","i","t","e","m","s">> :> <<"b","a","s","e","l","i","n","e">>),
            OuterBox, <<Hr(<<"n","1","a">>, FirstBox)>>),
    FlexRow(<<"n","1">>, EmptyObject, <<Leaf(<<"S","P","A","N">>, <<"n","1","a">>, EmptyObject, FirstBox, <<"A">>)>>),
    FlexRow(<<"n","1">>, <<"f","l","e","x","-","w","r","a","p">> :> <<"w","r","a","p">> @@ <<"r","o","w","-","g","a","p">> :> <<"4","p","x">>,
            <<Leaf(<<"S","P","A","N">>, <<"n","1","a">>, EmptyObject, FirstBox, <<"A">>),
              Leaf(<<"S","P","A","N">>, <<"n","1","b">>, EmptyObject, SecondBox, <<"B">>)>>),
    FlexRow(<<"n","1">>, <<"f","l","e","x","-","w","r","a","p">> :> <<"w","r","a","p","-","r","e","v","e","r","s","e">>,
            <<Leaf(<<"S","P","A","N">>, <<"n","1","a">>, EmptyObject, FirstBox, <<"A">>),
              Leaf(<<"S","P","A","N">>, <<"n","1","b">>, EmptyObject, SecondBox, <<"B">>)>>),
    FlexRow(<<"n","1">>, <<"f","l","e","x","-","w","r","a","p">> :> <<"n","o","w","r","a","p">> @@ <<"r","o","w","-","g","a","p">> :> <<"4","p","x">>,
            <<Leaf(<<"S","P","A","N">>, <<"n","1","a">>, EmptyObject, FirstBox, <<"A">>)>>),
    Img(<<"n","1">>, <<"u",".","p","n","g">>, FirstBox),
    Img(<<"n","1">>, <<>>, FirstBox),
    Svg(<<"n","1">>, FirstBox),
    Element(<<"I","N","P","U","T">>, <<"t","y","p","e">> :> <<"t","e","x","t">> @@ <<"p","l","a","c","e","h","o","l","d","e","r">> :> <<"q">>, Style(Serif), FirstBox, <<>>),
    Element(<<"S","E","L","E","C","T">>, <<"i","d">> :> <<"n","1">>, Style(EmptyObject), FirstBox, <<>>),
    TextArea(<<"n","1">>, FirstBox),
    Hr(<<"n","1">>, SecondBox),
    Element(<<"D","I","V">>, <<"i","d">> :> <<"n","1">>, Style(<<"b","a","c","k","g","r","o","u","n","d","-","c","o","l","o","r">> :> <<"r","g","b","(","2","5","5",","," ","0",","," ","0",")">>),
            Box(16, 16, 200, 100), <<>>),
    Element(<<"D","I","V">>, <<"i","d">> :> <<"n","1">>, Style(<<"b","a","c","k","g","r","o","u","n","d","-","c","o","l","o","r">> :> <<"r","g","b","(","2","5","5",","," ","0",","," ","0",")">>),
            SecondBox, <<>>),
    Element(<<"D","I","V">>, <<"i","d">> :> <<"n","1">>, Style(<<"b","a","c","k","g","r","o","u","n","d","-","c","o","l","o","r">> :> <<"r","g","b","a","(","2","5","5",","," ","0",","," ","0",","," ","0",".","0","0","5",")">>),
            FirstBox, <<>>),
    Element(<<"D","I","V">>, <<"i","d">> :> <<"n","1">>, Style(<<"b","a","c","k","g","r","o","u","n","d","-","c","o","l","o","r">> :> <<"c","o","l","o","r","(","s","r","g","b"," ","1"," ","0"," ","0",")">>),
            FirstBox, <<>>),
    Element(<<"D","I","V">>, <<"i","d">> :> <<"n","1">>,
            Style(<<"b","a","c","k","g","r","o","u","n","d","-","i","m","a","g","e">> :> <<"l","i","n","e","a","r","-","g","r","a","d","i","e","n","t","(","r","g","b","(","2","5","5",","," ","0",","," ","0",")",","," ","r","g","b","(","0",","," ","0",","," ","2","5","5",")",")">>),
            FirstBox, <<>>) }

\* the child nodes a mapped body can have after the first
LaterKids ==
  { TextNode(<<"y","o">>, Box(23, 60, 15, 24)),
    Img(<<"n","2">>, <<"u",".","p","n","g">>, Box(20, 70, 40, 20)),
    Element(<<"D","I","V">>, <<"i","d">> :> <<"n","2">>, Style(<<"b","a","c","k","g","r","o","u","n","d","-","c","o","l","o","r">> :> <<"r","g","b","(","2","5","5",","," ","0",","," ","0",")">>),
            Box(20, 70, 40, 20), <<>>) }

MapKids(i) == IF i = 1 THEN FirstKids ELSE LaterKids

Body(style, attributes, kids) == Element(<<"B","O","D","Y">>, attributes, Style(style), BodyBox, kids)

\* the document bodies the parser is run on before an import
MapDocs ==
  { Body(EmptyObject, EmptyObject, kids) : kids \in KidLists(MapKids, MaxKids) }
  \cup
  { Body(Serif, EmptyObject, <<TextNode(<<" ","h","i"," ">>, TextBox), TextNode(<<"y","o">>, Box(23, 60, 15, 24))>>),
    Body(ColumnCenter, EmptyObject, <<Hr(<<"n","1">>, SecondBox)>>),
    Body(EmptyObject, EmptyObject,
         <<Element(<<"D","I","V">>, <<"i","d">> :> <<"n","1">>, Style(EmptyObject), ThinBox, <<Hr(<<"n","1","a">>, ThinBox)>>),
           Img(<<"n","2">>, <<>>, FlatBox)>>),
    Body(EmptyObject, EmptyObject,
         <<Element(<<"D","I","V">>, <<"i","d">> :> <<"n","1">>, Style(EmptyObject), OuterBox,
                   <<Svg(<<"n","1","a">>, FirstBox), TextArea(<<"n","1","b">>, SecondBox)>>)>>),
    Body(EmptyObject, <<"d","a","t","a","-","s","o","u","r","c","e","-","u","r","l">> :> <<"n","o","t"," ","a"," ","u","r","l">>, <<Hr(<<"n","1">>, SecondBox)>>),
    Body(EmptyObject, <<"d","a","t","a","-","s","o","u","r","c","e","-","f","i","l","e">> :> <<"a",".","h","t","m","l">>, <<Hr(<<"n","1">>, SecondBox)>>) }

\* ui.ts, lines 172-184: the snapshot of a URL import as it is posted
UrlImport(snapshot, viewport, url, width, height) ==
  [snapshot EXCEPT !.attributes =
     (<<"d","a","t","a","-","v","i","e","w","p","o","r","t">> :> viewport @@ <<"d","a","t","a","-","s","o","u","r","c","e","-","u","r","l">> :> url @@
      <<"d","a","t","a","-","v","i","e","w","p","o","r","t","-","w","i","d","t","h">> :> width @@ <<"d","a","t","a","-","v","i","e","w","p","o","r","t","-","h","e","i","g","h","t">> :> height) @@ @]

\* a snapshot whose style maps hold values no browser computed: they reach
\* the Mapper in the messages of ui.ts, lines 457-492, as they were sent
Posted(style) ==
  [tag |-> <<"b","o","d","y">>, attributes |-> EmptyObject,
   computedStyle |-> <<"d","i","s","p","l","a","y">> :> <<"b","l","o","c","k">> @@ <<"p","o","s","i","t","i","o","n">> :> <<"s","t","a","t","i","c">>,
   boundingBox |-> BoundingBox(BodyBox),
   children |-> <<[type |-> "element", tag |-> <<"d","i","v">>, attributes |-> <<"i","d">> :> <<"n","1">>,
                   computedStyle |-> style @@ <<"d","i","s","p","l","a","y">> :> <<"b","l","o","c","k">> @@ <<"p","o","s","i","t","i","o","n">> :> <<"s","t","a","t","i","c">>,
                   boundingBox |-> BoundingBox(FirstBox), children |-> <<>>]>>]

NoDocument == [nodeType |-> "NONE"]

\* what the controller can be sent: a parsed body, a parsed page of a URL
\* import, or a posted snapshot
Imports ==
  { [live |-> b, via |-> "parser", dom |-> serializeDOM(b)] : b \in MapDocs }
  \cup
  { [live |-> b, via |-> "parser",
     dom |-> UrlImport(serializeDOM(b), <<"d","e","s","k","t","o","p">>, <<"h","t","t","p","s",":","/","/","A",".","i","o","/","x">>, <<"1","4","4","0">>, <<"9","0","0">>)]
    : b \in {Body(EmptyObject, EmptyObject, <<k>>) : k \in LaterKids} }
  \cup
  { [live |-> NoDocument, via |-> "posted", dom |-> Posted(style)] :
      style \in { EmptyObject,
                  <<"b","a","c","k","g","r","o","u","n","d","C","o","l","o","r">> :> <<"#","f","f","0","0","0","0">>,
                  <<"b","a","c","k","g","r","o","u","n","d","C","o","l","o","r">> :> <<"r","g","b","(","2","5","5",","," ","0",","," ","0",")">>
                    @@ <<"b","a","c","k","g","r","o","u","n","d","I","m","a","g","e">> :> <<"l","i","n","e","a","r","-","g","r","a","d","i","e","n","t","(","t","o"," ","r","i","g","h","t",","," ","#","f","f","0","0","0","0",","," ","b","l","u","e",")">>,
                  <<"b","a","c","k","g","r","o","u","n","d","I","m","a","g","e">> :> <<"l","i","n","e","a","r","-","g","r","a","d","i","e","n","t","(","4","5","d","e","g",","," ","#","f","f","f",","," ","#","0","0","0"," ",")">>,
                  <<"b","a","c","k","g","r","o","u","n","d","C","o","l","o","r">> :> <<"c","o","n","s","t","r","u","c","t","o","r">> } }


\* ------------------------------------------------- the Mapper -----------

\* a message of one type whatever is sent
MessageStarted(type) == [type |-> "import-started"]

\* sendToUI, lines 252-254, of a message without a payload
Message(type) == [type |-> type]

Progress(percent) == [type |-> "import-progress", percent |-> percent]

\* FigmaMapper.report, lines 831-835, with the callback of handleImportDOM
report(r, log, percent) == IF callback[r] THEN Append(log, Progress(percent)) ELSE log

\* the callback mapToFigma passes to mapNode, lines 55-59
onProgress(r, log, count) ==
  report(r, log, ProgressPercent(count, countNodes(dom.children)))

\* run r has taken a step of its mapToFigma
Moved(r) == moves' = [moves EXCEPT ![r] = 1 - @]

Top(r) == stack[r][Len(stack[r])]

\* the run is at the head of a loop over children with a child left to map
Visiting(r) ==
  /\ pc[r] = "mapping"
  /\ pending[r] = NoCall
  /\ Top(r).idx <= Len(Top(r).el.children)

Child(r) == Top(r).el.children[Top(r).idx]

ChildPath(r) == Append(Top(r).path, Top(r).idx)

ParentBounds(r) == Top(r).el.boundingBox

IsElement(node, tags) == node.type = "element" /\ node.tag \in tags

FormTags == {<<"i","n","p","u","t">>, <<"t","e","x","t","a","r","e","a">>, <<"s","e","l","e","c","t">>}

\* a dispatch that knows no svg
SpecialTagsWithoutSvg == {<<"i","m","g">>, <<"h","r">>} \cup FormTags

\* mapElement, lines 94-112: the tags it tests before the children
SpecialTags == {<<"i","m","g">>, <<"s","v","g">>, <<"h","r">>} \cup FormTags

\* mapNode returned child (0 for null) to the loop that called it, which
\* appends it to the frame whose children it is mapping and goes on
Returned(r, h, child, log) ==
  /\ nodes' = [nodes EXCEPT ![r] = appendChild(h, Top(r).id, child)]
  /\ stack' = [stack EXCEPT ![r] = [@ EXCEPT ![Len(@)].idx = @ + 1]]
  /\ pending' = [pending EXCEPT ![r] = NoCall]
  /\ ui' = [ui EXCEPT ![r] = log]
  /\ UNCHANGED <<pc, pageOrder>>

\* an exception left mapToFigma; handleImportDOM, lines 179-182, reports it
Failed(r, h, log) ==
  /\ nodes' = [nodes EXCEPT ![r] = h]
  /\ pc' = [pc EXCEPT ![r] = "failed"]
  /\ stack' = [stack EXCEPT ![r] = <<>>]
  /\ pending' = [pending EXCEPT ![r] = NoCall]
  /\ ui' = [ui EXCEPT ![r] = Append(log, Message("import-error"))]
  /\ UNCHANGED pageOrder

\* the run awaits a call to the host
Awaiting(r, h, call, log) ==
  /\ nodes' = [nodes EXCEPT ![r] = h]
  /\ pending' = [pending EXCEPT ![r] = call]
  /\ ui' = [ui EXCEPT ![r] = log]
  /\ UNCHANGED <<pc, stack, pageOrder>>

\* the log of a call of loadFont that begins: whether the font's key is among
\* the recorded failures, line 738
LoadBegun(log, call) ==
  IF call.op = "font"
    THEN [node |-> call.node, recorded |-> call.attempt = "fallback", attempts |-> <<>>]
    ELSE log

\* FigmaMapper.loadFont up to its first await
FontCall(r, style, kind, node, frame, content) ==
  [op |-> "font",
   attempt |-> IF FontKey(FontOf(style)) \in fontLoadErrors[r] THEN "fallback" ELSE "exact",
   style |-> style, kind |-> kind, node |-> node, frame |-> frame, content |-> content]

\* handleImportDOM, lines 122-143, and mapToFigma, lines 26-52
RootNode(props) == <<Node("FRAME", "root", <<>>, props)>>

\* new URL(sourceUrl) or a style of the root threw: lines 179-182
RootFailed(r, props, log) ==
  /\ nodes' = [nodes EXCEPT ![r] = RootNode(props)]
  /\ pc' = [pc EXCEPT ![r] = "failed"]
  /\ ui' = [ui EXCEPT ![r] = Append(log, Message("import-error"))]
  /\ UNCHANGED stack

Metadata(sourceUrl, viewport) ==
  IF viewport # <<>> THEN [sourceUrl |-> sourceUrl, viewport |-> viewport]
  ELSE [sourceUrl |-> sourceUrl]

\* mapToFigma, lines 46-52: the root is styled and the loop over the
\* snapshot's children begins
RootStyled(r, sourceUrl, styled, log) ==
  IF styled.threw THEN RootFailed(r, styled.props, log)
  ELSE /\ nodes' = [nodes EXCEPT ![r] =
                      RootNode(("clipsContent" :> TRUE @@
                                "pluginData" :> Metadata(sourceUrl,
                                                         Get(dom.attributes, <<"d","a","t","a","-","v","i","e","w","p","o","r","t">>)))
                               @@ styled.props)]
       /\ pc' = [pc EXCEPT ![r] = "mapping"]
       /\ stack' = [stack EXCEPT ![r] = <<[el |-> dom, path |-> <<>>, id |-> 1, idx |-> 1]>>]
       /\ ui' = [ui EXCEPT ![r] = report(r, log, 20)]

\* mapToFigma, lines 34-44: the root's name and size
RootSized(name) ==
  "width" :> MathMax(dom.boundingBox.width, One) @@
  "height" :> MathMax(dom.boundingBox.height, One) @@ "name" :> name

RootNamed(r, sourceUrl, name, log) ==
  RootStyled(r, sourceUrl, applyFrameStyles(RootSized(name), dom.computedStyle), log)

RootLocated(r, sourceUrl, url, log) ==
  IF url.threw THEN RootFailed(r, EmptyObject, log)
  ELSE RootNamed(r, sourceUrl,
                 IF sourceUrl # <<>> THEN <<"I","m","p","o","r","t",":"," ">> \o url.hostname ELSE <<"H","T","M","L"," ","I","m","p","o","r","t">>,
                 log)

\* new URL(sourceUrl).hostname, evaluated only for a source URL that is set
RootMade(r, sourceUrl, log) ==
  RootLocated(r, sourceUrl,
              IF sourceUrl # <<>> THEN URLHostname(sourceUrl)
              ELSE [threw |-> FALSE, hostname |-> <<>>],
              log)

handleImportDOM(r) ==
  /\ pc[r] = "idle"
  /\ pageOrder' = Append(pageOrder, r)
  /\ imageCache' = [imageCache EXCEPT ![r] = EmptyObject]
  /\ fontLoadErrors' = [fontLoadErrors EXCEPT ![r] = {}]
  /\ processed' = [processed EXCEPT ![r] = 0]
  /\ pending' = [pending EXCEPT ![r] = NoCall]
  /\ RootMade(r, Get(dom.attributes, <<"d","a","t","a","-","s","o","u","r","c","e","-","u","r","l">>),
              report(r, <<Message("import-started")>>, 10))
  /\ UNCHANGED <<otherVars, captureVars, dom, callback, loaded, fontLog, moves>>

\* mapNode on a text node: createTextNode, lines 159-174
TextMade(r, child, log) ==
  IF Trim(child.content) = <<>> THEN Returned(r, nodes[r], 0, log)
  ELSE Awaiting(r, Append(nodes[r], Node("TEXT", "text", ChildPath(r),
                                         TextProps(child, ParentBounds(r)))),
                FontCall(r, child.computedStyle, "text", Len(nodes[r]) + 1, 0, child.content),
                log)

createTextNode(r) ==
  /\ Visiting(r)
  /\ Child(r).type = "text"
  /\ processed' = [processed EXCEPT ![r] = @ + 1]
  /\ TextMade(r, Child(r), onProgress(r, ui[r], processed[r] + 1))
  /\ fontLog' = [fontLog EXCEPT ![r] = LoadBegun(@, pending'[r])]
  /\ Moved(r)
  /\ UNCHANGED <<otherVars, captureVars, dom, callback, imageCache, fontLoadErrors, loaded>>

\* mapElement on an img: createImageNode, lines 241-261, and fetchImage up to
\* its fetch
Rectangle(r, props) == Append(nodes[r], Node("RECTANGLE", "image", ChildPath(r), props))

\* lines 257-274 for an image without a source or with a cached one
ImageFilled(r, props, src) ==
  applyBorderRadius(IF src = <<>> THEN props
                    ELSE Put(props, "fills", <<ImagePaint(imageCache[r][src])>>),
                    Child(r).computedStyle)

\* a createImageNode whose fetchImage does not look into the cache
ImageMadeUncached(r, props, src, log) ==
  IF src = <<>>
    THEN Returned(r, Rectangle(r, ImageFilled(r, props, src)), Len(nodes[r]) + 1, log)
    ELSE Awaiting(r, Rectangle(r, props),
                  [op |-> "fetch", url |-> src, node |-> Len(nodes[r]) + 1], log)

ImageMade(r, props, src, log) ==
  IF src = <<>> \/ src \in DOMAIN imageCache[r]
    THEN Returned(r, Rectangle(r, ImageFilled(r, props, src)), Len(nodes[r]) + 1, log)
    ELSE Awaiting(r, Rectangle(r, props),
                  [op |-> "fetch", url |-> src, node |-> Len(nodes[r]) + 1], log)

createImageNode(r) ==
  /\ Visiting(r)
  /\ IsElement(Child(r), {<<"i","m","g">>})
  /\ processed' = [processed EXCEPT ![r] = @ + 1]
  /\ ImageMade(r, ImageProps(Child(r), ParentBounds(r)), Get(Child(r).attributes, <<"s","r","c">>),
               onProgress(r, ui[r], processed[r] + 1))
  /\ Moved(r)
  /\ UNCHANGED <<otherVars, captureVars, dom, callback, fontLog, imageCache, fontLoadErrors, loaded>>

\* mapElement on an svg: createSvgNode; the host imports the markup or not
createSvgNode(r, imported) ==
  /\ Visiting(r)
  /\ IsElement(Child(r), {<<"s","v","g">>})
  /\ processed' = [processed EXCEPT ![r] = @ + 1]
  /\ Returned(r,
              Append(nodes[r],
                     Node(IF imported THEN "FRAME" ELSE "RECTANGLE",
                          IF imported THEN "vector" ELSE "placeholder",
                          ChildPath(r), SvgProps(Child(r), ParentBounds(r), imported))),
              Len(nodes[r]) + 1, onProgress(r, ui[r], processed[r] + 1))
  /\ Moved(r)
  /\ UNCHANGED <<otherVars, captureVars, dom, callback, fontLog, imageCache, fontLoadErrors, loaded>>

\* mapElement on an input, textarea or select: createFormElement, lines 343-365
\* lines 361-365: a form element with a placeholder or a value gets a text
FormLabelled(r, made, textValue, log) ==
  IF textValue = <<>> THEN Returned(r, made, Len(made), log)
  ELSE Awaiting(r, Append(made, Node("TEXT", "label", ChildPath(r), EmptyObject)),
                FontCall(r, Child(r).computedStyle, "form", Len(made) + 1, Len(made),
                         textValue),
                log)

FormMade(r, props, log) ==
  IF props.threw
    THEN Failed(r, Append(nodes[r], Node("FRAME", "form", ChildPath(r), props.props)), log)
    ELSE FormLabelled(r, Append(nodes[r], Node("FRAME", "form", ChildPath(r), props.props)),
                      textValueOf(Child(r).attributes), log)

createFormElement(r) ==
  /\ Visiting(r)
  /\ IsElement(Child(r), FormTags)
  /\ processed' = [processed EXCEPT ![r] = @ + 1]
  /\ FormMade(r, FormProps(Child(r), ParentBounds(r)), onProgress(r, ui[r], processed[r] + 1))
  /\ fontLog' = [fontLog EXCEPT ![r] = LoadBegun(@, pending'[r])]
  /\ Moved(r)
  /\ UNCHANGED <<otherVars, captureVars, dom, callback, imageCache, fontLoadErrors, loaded>>

\* mapElement on an hr: createHrNode
HrMade(r, made, threw, log) ==
  IF threw THEN Failed(r, made, log) ELSE Returned(r, made, Len(made), log)

HrStyled(r, props, log) ==
  HrMade(r, Append(nodes[r], Node("RECTANGLE", "divider", ChildPath(r), props.props)),
         props.threw, log)

createHrNode(r) ==
  /\ Visiting(r)
  /\ IsElement(Child(r), {<<"h","r">>})
  /\ processed' = [processed EXCEPT ![r] = @ + 1]
  /\ HrStyled(r, HrProps(Child(r), ParentBounds(r)), onProgress(r, ui[r], processed[r] + 1))
  /\ Moved(r)
  /\ UNCHANGED <<otherVars, captureVars, dom, callback, fontLog, imageCache, fontLoadErrors, loaded>>

\* mapElement on an element with text children only: lines 113-125 and
\* createTextFrame, lines 189-214
TextFrameLabelled(r, made, textContent, log) ==
  Awaiting(r, Append(made, Node("TEXT", "label", ChildPath(r),
                                "name" :> Substring(textContent, 0, 40))),
           FontCall(r, Child(r).computedStyle, "textFrame", Len(made) + 1, Len(made),
                    textContent),
           log)

TextFrameMade(r, made, threw, log) ==
  IF threw THEN Failed(r, made, log)
  ELSE TextFrameLabelled(r, made, textContentOf(Child(r).children), log)

TextFrameStyled(r, props, log) ==
  TextFrameMade(r, Append(nodes[r], Node("FRAME", "textFrame", ChildPath(r), props.props)),
                props.threw, log)

createTextFrame(r) ==
  /\ Visiting(r)
  /\ Child(r).type = "element"
  /\ Child(r).tag \notin SpecialTags
  /\ hasOnlyText(Child(r).children)
  /\ processed' = [processed EXCEPT ![r] = @ + 1]
  /\ TextFrameStyled(r, FrameProps(Child(r), ParentBounds(r)),
                     onProgress(r, ui[r], processed[r] + 1))
  /\ fontLog' = [fontLog EXCEPT ![r] = LoadBegun(@, pending'[r])]
  /\ Moved(r)
  /\ UNCHANGED <<otherVars, captureVars, dom, callback, imageCache, fontLoadErrors, loaded>>

\* mapElement on any other element, lines 127-143: its frame is made and the
\* loop over its children begins
FrameMade(r, made, threw) ==
  IF threw THEN Failed(r, made, ui[r])
  ELSE /\ nodes' = [nodes EXCEPT ![r] = made]
       /\ stack' = [stack EXCEPT ![r] =
                      Append(@, [el |-> Child(r), path |-> ChildPath(r),
                                 id |-> Len(made), idx |-> 1])]
       /\ UNCHANGED <<pc, pending, ui, pageOrder>>

FrameStyled(r, props) ==
  FrameMade(r, Append(nodes[r], Node("FRAME", "frame", ChildPath(r), props.props)),
            props.threw)

mapElement(r) ==
  /\ Visiting(r)
  /\ Child(r).type = "element"
  /\ Child(r).tag \notin SpecialTags
  /\ ~hasOnlyText(Child(r).children)
  /\ FrameStyled(r, FrameProps(Child(r), ParentBounds(r)))
  /\ Moved(r)
  /\ UNCHANGED <<otherVars, captureVars, dom, callback, fontLog, imageCache, fontLoadErrors, processed, loaded>>


\* a loadFont that goes from the font itself to the default font
NextAttemptDefault(attempt) == "default"

\* a loadFont that asks for the same font again
NextAttemptAgain(attempt) == attempt

\* loadFont, lines 746-758: the attempt made in the catch of a failed one
NextAttempt(attempt) == IF attempt = "exact" THEN "regular" ELSE "default"

\* the font an attempt of FigmaMapper.loadFont asks the host for
AttemptOf(attempt, font) ==
  IF attempt = "exact" THEN font
  ELSE IF attempt = "regular" THEN [family |-> font.family, style |-> <<"R","e","g","u","l","a","r">>]
  ELSE DefaultFont

AttemptedFont(call) == AttemptOf(call.attempt, FontOf(call.style))

\* the text of a leaf text container or form element once its font is
\* settled: createTextFrame, lines 215-236, createFormElement, lines 366-375
LabelText(kind, props) ==
  IF kind = "textFrame"
    THEN ("layoutSizingHorizontal" :> "FILL" @@ "textAutoResize" :> "HEIGHT") @@ props
    ELSE Put(props, "layoutSizingHorizontal", "FILL")

LabelFrame(kind, props, style) ==
  IF kind = "textFrame" THEN TextFrameLayout(props, style) ELSE FormLayout(props, style)

LabelOf(h, call, label) ==
  IF label.threw THEN [threw |-> TRUE, nodes |-> Assign(h, call.node, label.props)]
  ELSE [threw |-> FALSE,
        nodes |-> appendChild(
                    Assign(Assign(h, call.node, LabelText(call.kind, label.props)),
                           call.frame, LabelFrame(call.kind, h[call.frame].props, call.style)),
                    call.frame, call.node)]

Labelled(h, call, nowLoaded) ==
  LabelOf(h, call, LabelFilled(h[call.node].props, call.content, call.style, nowLoaded))

\* figma.loadFontAsync settles, with the font loaded or not: the rest of
\* FigmaMapper.loadFont, lines 738-759, and, once it returns, the rest of the
\* function that awaited it
TextSettled(r, call, filled) ==
  IF filled.threw THEN Failed(r, Assign(nodes[r], call.node, filled.props), ui[r])
  ELSE Returned(r, Assign(nodes[r], call.node, filled.props), call.node, ui[r])

LabelSettled(r, call, labelled) ==
  IF labelled.threw THEN Failed(r, labelled.nodes, ui[r])
  ELSE Returned(r, labelled.nodes, call.frame, ui[r])

FontSettled(r, ok, call, nowLoaded) ==
  /\ loaded' = nowLoaded
  /\ fontLoadErrors' =
       IF call.attempt = "exact" /\ ~ok
         THEN [fontLoadErrors EXCEPT ![r] = @ \cup {FontKey(FontOf(call.style))}]
         ELSE fontLoadErrors
  /\ IF ~ok /\ call.attempt \in {"exact", "regular"}
       THEN Awaiting(r, nodes[r], [call EXCEPT !.attempt = NextAttempt(@)], ui[r])
     ELSE IF call.kind = "text"
       THEN TextSettled(r, call, TextFilled(nodes[r][call.node].props, Child(r), nowLoaded))
     ELSE LabelSettled(r, call, Labelled(nodes[r], call, nowLoaded))

loadFontAsync(r, ok) ==
  /\ pc[r] = "mapping"
  /\ pending[r].op = "font"
  /\ FontSettled(r, ok, pending[r],
                 IF ok THEN loaded \cup {AttemptedFont(pending[r])} ELSE loaded)
  /\ fontLog' = [fontLog EXCEPT ![r].attempts =
                   Append(@, [font |-> AttemptedFont(pending[r]), ok |-> ok])]
  /\ Moved(r)
  /\ UNCHANGED <<otherVars, captureVars, dom, callback, imageCache, processed>>

FetchOutcomes == {"ok", "not ok", "rejected"}

\* the fetch of FigmaMapper.fetchImage settles: the response is ok and its
\* bytes become an image, the response is not ok, or the fetch, the read of
\* the bytes or the image's creation is rejected (lines 282-292); then the
\* rest of createImageNode, lines 262-274
Fetched(r, outcome, call, imageHash) ==
  /\ imageCache' = IF outcome = "ok"
                     THEN [imageCache EXCEPT ![r] = Put(@, call.url, imageHash)]
                     ELSE imageCache
  /\ Returned(r,
              Assign(nodes[r], call.node,
                     applyBorderRadius(IF outcome = "ok"
                                         THEN Put(nodes[r][call.node].props, "fills",
                                                  <<ImagePaint(imageHash)>>)
                                         ELSE nodes[r][call.node].props,
                                       Child(r).computedStyle)),
              call.node, ui[r])

fetchImage(r, outcome) ==
  /\ pc[r] = "mapping"
  /\ pending[r].op = "fetch"
  /\ Fetched(r, outcome, pending[r], HashOf(pending[r].url))
  /\ Moved(r)
  /\ UNCHANGED <<otherVars, captureVars, dom, callback, fontLog, fontLoadErrors, processed, loaded>>

\* the loop of mapElement over the children is over: lines 150-154, and the
\* caller's loop appends the frame
mapElementDone(r) ==
  LET frame == Top(r).id
      below == SubSeq(stack[r], 1, Len(stack[r]) - 1)
      parent == below[Len(below)]
      h == tryApplyAutoLayout(nodes[r], frame, Top(r).el.computedStyle)
  IN /\ pc[r] = "mapping"
     /\ pending[r] = NoCall
     /\ Len(stack[r]) > 1
     /\ Top(r).idx > Len(Top(r).el.children)
     /\ nodes' = [nodes EXCEPT ![r] = appendChild(h, parent.id, frame)]
     /\ stack' = [stack EXCEPT ![r] = [below EXCEPT ![Len(below)].idx = @ + 1]]
     /\ processed' = [processed EXCEPT ![r] = @ + 1]
     /\ ui' = [ui EXCEPT ![r] = onProgress(r, @, processed[r] + 1)]
     /\ Moved(r)
     /\ UNCHANGED <<otherVars, captureVars, dom, callback, pc, pending, imageCache, fontLoadErrors, loaded,
                    pageOrder, fontLog>>

\* figma.viewport.center
ViewportCenter == [x |-> Num(0), y |-> Num(0)]

\* a property of a host node as it reads: what was assigned, else the default
Read(props, name, default) == IF Has(props, name) THEN props[name] ELSE default

\* handleImportDOM, lines 145-176: the frame mapToFigma returned is placed
\* after the last frame on the page called "Import:...", else centred, and
\* renamed.  Of the frames on the page only roots can carry such a name:
\* every other frame's name starts with a lower-case tag or a semantic name.
Placed(r, h) ==
  LET root == h[1].props
      rootOf(q) == IF q = r THEN root ELSE nodes[q][1].props
      existingFrames ==
        SelectSeq(pageOrder, LAMBDA q : StartsWith(Read(rootOf(q), "name", <<"F","r","a","m","e">>), <<"I","m","p","o","r","t",":">>))
      lastFrame == rootOf(existingFrames[Len(existingFrames)])
      half == Frac(1, 2)
      at == IF Len(existingFrames) > 0
              THEN [x |-> Plus(Plus(Read(lastFrame, "x", Num(0)), lastFrame["width"]), Num(40)),
                    y |-> Read(lastFrame, "y", Num(0))]
              ELSE [x |-> Minus(ViewportCenter.x, Times(root["width"], half)),
                    y |-> Minus(ViewportCenter.y, Times(root["height"], half))]
      viewport == Get(dom.attributes, <<"d","a","t","a","-","v","i","e","w","p","o","r","t">>)
      vpWidth == IF <<"d","a","t","a","-","v","i","e","w","p","o","r","t","-","w","i","d","t","h">> \in DOMAIN dom.attributes
                   THEN dom.attributes[<<"d","a","t","a","-","v","i","e","w","p","o","r","t","-","w","i","d","t","h">>] ELSE <<"u","n","d","e","f","i","n","e","d">>
      sourceFile == Get(dom.attributes, <<"d","a","t","a","-","s","o","u","r","c","e","-","f","i","l","e">>)
      name == IF sourceFile # <<>> THEN <<"I","m","p","o","r","t",":"," ">> \o sourceFile
              ELSE IF viewport # <<>>
                THEN root["name"] \o <<" ","-"," ">> \o viewport \o <<" ","(">> \o vpWidth \o <<"p","x",")">>
              ELSE root["name"]
  IN Assign(h, 1, ("x" :> at.x @@ "y" :> at.y @@ "name" :> name) @@ root)

\* the loop of mapToFigma over the root's children is over: lines 65-69, and
\* the rest of handleImportDOM
mapToFigmaDone(r) ==
  /\ pc[r] = "mapping"
  /\ pending[r] = NoCall
  /\ Len(stack[r]) = 1
  /\ Top(r).idx > Len(dom.children)
  /\ nodes' = [nodes EXCEPT ![r] = Placed(r, tryApplyAutoLayout(@, 1, dom.computedStyle))]
  /\ pc' = [pc EXCEPT ![r] = "done"]
  /\ stack' = [stack EXCEPT ![r] = <<>>]
  /\ ui' = [ui EXCEPT ![r] = Append(report(r, @, 100), Message("import-complete"))]
  /\ Moved(r)
  /\ UNCHANGED <<otherVars, captureVars, dom, callback, fontLog, pending, imageCache, fontLoadErrors, processed, loaded,
                 pageOrder>>

Init ==
  /\ \E import \in Imports :
       /\ live = import.live
       /\ via = import.via
       /\ dom = import.dom
  /\ MapperIdle
  /\ TranslatorsIdle
  /\ ParserIdle

Next ==
  \E r \in Runs :
    \/ handleImportDOM(r)
    \/ createTextNode(r)
    \/ createImageNode(r)
    \/ \E imported \in BOOLEAN : createSvgNode(r, imported)
    \/ createFormElement(r)
    \/ createHrNode(r)
    \/ createTextFrame(r)
    \/ mapElement(r)
    \/ \E ok \in BOOLEAN : loadFontAsync(r, ok)
    \/ \E outcome \in FetchOutcomes : fetchImage(r, outcome)
    \/ mapElementDone(r)
    \/ mapToFigmaDone(r)

Spec == Init /\ [][Next]_vars

\* the imports of a caller that gives the mapper of the first import a
\* progress callback and the mappers of the others none (the parameter of the
\* constructor is optional, line 22)
InitQuiet ==
  /\ \E import \in Imports :
       /\ live = import.live
       /\ via = import.via
       /\ dom = import.dom
  /\ NoImport
  /\ callback = [r \in Runs |-> r = 1]
  /\ TranslatorsIdle
  /\ ParserIdle

SpecQuiet == InitQuiet /\ [][Next]_vars

\* the steps of run r between the arrival of its message and the end of
\* mapToFigma: the run's own code and the host calls it awaits
MapperStep(r) ==
  \/ createTextNode(r)
  \/ createImageNode(r)
  \/ \E imported \in BOOLEAN : createSvgNode(r, imported)
  \/ createFormElement(r)
  \/ createHrNode(r)
  \/ createTextFrame(r)
  \/ mapElement(r)
  \/ \E ok \in BOOLEAN : loadFontAsync(r, ok)
  \/ \E outcome \in FetchOutcomes : fetchImage(r, outcome)
  \/ mapElementDone(r)
  \/ mapToFigmaDone(r)

\* run r takes a step of its mapToFigma.  A run that is mapping has a step to
\* take: it awaits a call of the host, or it is at the head or at the end of
\* a loop over children, so that MapperStep(r) is enabled exactly when
\* pc[r] = "mapping", and a step of it is a step that changes moves[r]
Continues(r) == pc[r] = "mapping" /\ Moved(r)

\* the plugin's event loop runs every continuation that is ready, and every
\* call of the host settles
FairSpec == Spec /\ \A r \in Runs : WF_moves(Continues(r))


\* ------------------------------------------------- the Mapper: properties

RECURSIVE SnapshotAt(_, _)
\* the snapshot node at the place path below node
SnapshotAt(node, path) ==
  IF path = <<>> THEN node ELSE SnapshotAt(node.children[Head(path)], Tail(path))

\* the snapshot node a host node was made from, and that node's parent
Source(node) == SnapshotAt(dom, node.src)

SourceParent(node) == SnapshotAt(dom, SubSeq(node.src, 1, Len(node.src) - 1))

\* what a host node other than the root is made from a snapshot node as
SnapshotRoles ==
  {"frame", "textFrame", "text", "image", "vector", "placeholder", "form", "divider"}

\* the position of a snapshot node relative to the origin of its parent
RelativeX(node) == MathRound(Minus(Source(node).boundingBox.x, SourceParent(node).boundingBox.x))

RelativeY(node) == MathRound(Minus(Source(node).boundingBox.y, SourceParent(node).boundingBox.y))

\* C1: every node a run has made from a snapshot node below the root (general
\* frame, leaf text frame, text, image rectangle, vector, placeholder, form
\* frame, divider) has the position x = round(bbox.x - parentBbox.x),
\* y = round(bbox.y - parentBbox.y), parentBbox being the box of the snapshot
\* node's parent; none carries the snapshot's absolute coordinates instead.
C1_RelativePosition ==
  \A r \in Runs : \A n \in 2..Len(nodes[r]) :
    nodes[r][n].role \in SnapshotRoles =>
      /\ Has(nodes[r][n].props, "x") /\ Has(nodes[r][n].props, "y")
      /\ nodes[r][n].props["x"] = RelativeX(nodes[r][n])
      /\ nodes[r][n].props["y"] = RelativeY(nodes[r][n])

\* a completed run made a node two levels below the root whose relative
\* position differs from its absolute one, and a text directly below the root
C1_Witness ==
  \E r \in Runs :
    /\ pc[r] = "done"
    /\ \E n \in 2..Len(nodes[r]) :
         /\ nodes[r][n].role \in {"textFrame", "divider", "image"}
         /\ Len(nodes[r][n].src) = 2
         /\ nodes[r][n].props["x"] # MathRound(Source(nodes[r][n]).boundingBox.x)
         /\ nodes[r][n].props["y"] # MathRound(Source(nodes[r][n]).boundingBox.y)
    /\ \E n \in 2..Len(nodes[r]) : nodes[r][n].role = "text"

\* C2: when a run has failed, nothing it created is left in the host
\* document: neither its root frame nor any node below it.
C2_NothingLeft == \A r \in Runs : pc[r] = "failed" => nodes[r] = <<>>

\* the run failed at the assignment of a text's characters: the host had no
\* font loaded when the text was to be filled
FontAbort(r) ==
  /\ pc[r] = "failed"
  /\ \E n \in 1..Len(nodes[r]) :
       nodes[r][n].kind = "TEXT" /\ ~Has(nodes[r][n].props, "characters")

\* C3: content the host cannot take never aborts a run: whatever font loads,
\* image fetches and vector imports fail, no run fails at a text because its
\* fonts could not be loaded.
C3_NeverAborts == \A r \in Runs : ~FontAbort(r)

\* the shape of a run's tree and the position and size of its nodes.  The
\* position of the root on the page is not part of it: the controller, not
\* the Mapper, places the root, next to the imports already on the page.
Geometry(h) ==
  [n \in 1..Len(h) |->
     [parent |-> h[n].parent, children |-> h[n].children,
      x |-> IF n = 1 THEN NaN ELSE Read(h[n].props, "x", NaN),
      y |-> IF n = 1 THEN NaN ELSE Read(h[n].props, "y", NaN),
      width |-> Read(h[n].props, "width", NaN),
      height |-> Read(h[n].props, "height", NaN)]]

\* the host's vector imports ended alike in both runs
SameImports(h1, h2) ==
  Len(h1) = Len(h2) /\ \A n \in 1..Len(h1) : h1[n].kind = h2[n].kind

\* C4: two runs over the same snapshot, each with caches of its own, end with
\* trees of the same shape whose nodes have the same position and size,
\* whatever the order and the outcome of the font loads and image fetches of
\* each run.
C4_Determinism ==
  \A r1 \in Runs : \A r2 \in Runs :
    (pc[r1] = "done" /\ pc[r2] = "done" /\ SameImports(nodes[r1], nodes[r2]))
      => Geometry(nodes[r1]) = Geometry(nodes[r2])

\* two runs are complete whose image fetches and font loads ended differently
C4_Witness ==
  /\ pc[1] = "done" /\ pc[2] = "done"
  /\ SameImports(nodes[1], nodes[2])
  /\ Len(nodes[1]) >= 3
  /\ imageCache[1] # imageCache[2]
  /\ fontLoadErrors[1] # fontLoadErrors[2]

IsFlex(style) == Get(style, <<"d","i","s","p","l","a","y">>) \in {<<"f","l","e","x">>, <<"i","n","l","i","n","e","-","f","l","e","x">>}

\* the auto-layout parameters of a frame: layout mode, alignment, spacing, padding
LayoutKeys ==
  {"layoutMode", "primaryAxisAlignItems", "counterAxisAlignItems", "layoutWrap",
   "itemSpacing", "counterAxisSpacing",
   "paddingTop", "paddingRight", "paddingBottom", "paddingLeft"}

ColumnCentered(props) ==
  /\ Has(props, "layoutMode") /\ props["layoutMode"] = "VERTICAL"
  /\ Has(props, "primaryAxisAlignItems") /\ props["primaryAxisAlignItems"] = "CENTER"

\* the children of node n made from snapshot nodes have translated positions
ChildrenPlaced(h, n) ==
  \A i \in 1..Len(h[n].children) :
    h[h[n].children[i]].role \in SnapshotRoles =>
      /\ Read(h[h[n].children[i]].props, "x", NaN) = RelativeX(h[h[n].children[i]])
      /\ Read(h[h[n].children[i]].props, "y", NaN) = RelativeY(h[h[n].children[i]])

\* what C8 says of the frame n, made from an element with the given style
FlexOrPlain(h, n, style) ==
  /\ (/\ IsFlex(style)
      /\ Get(style, <<"f","l","e","x","D","i","r","e","c","t","i","o","n">>) = <<"c","o","l","u","m","n">>
      /\ Get(style, <<"j","u","s","t","i","f","y","C","o","n","t","e","n","t">>) = <<"c","e","n","t","e","r">>) => ColumnCentered(h[n].props)
  /\ ~IsFlex(style) => (DOMAIN h[n].props \cap LayoutKeys = {} /\ ChildrenPlaced(h, n))

IsLeaf(child) ==
  /\ child.type = "element"
  /\ child.tag \notin SpecialTags
  /\ hasOnlyText(child.children)

\* the elements C9 is about: display flex, no flex-direction of its own (a
\* browser computes row for it), a gap of g px with g > 0, and as children
\* elements with non-empty text only
IsRowOfLeaves(el) ==
  /\ Get(el.computedStyle, <<"d","i","s","p","l","a","y">>) = <<"f","l","e","x">>
  /\ Get(el.computedStyle, <<"f","l","e","x","D","i","r","e","c","t","i","o","n">>) \in {<<>>, <<"r","o","w">>}
  /\ EndsWith(Get(el.computedStyle, <<"g","a","p">>), <<"p","x">>)
  /\ Less(Num(0), ParseFloat(Get(el.computedStyle, <<"g","a","p">>)))
  /\ Len(el.children) > 0
  /\ \A i \in 1..Len(el.children) : IsLeaf(el.children[i])

Wraps(style) == Get(style, <<"f","l","e","x","W","r","a","p">>) \in {<<"w","r","a","p">>, <<"w","r","a","p","-","r","e","v","e","r","s","e">>}

\* row-gap, else gap, in px
RowGapOf(style) ==
  ParseFloat(IF Get(style, <<"r","o","w","G","a","p">>) # <<>> THEN Get(style, <<"r","o","w","G","a","p">>) ELSE Get(style, <<"g","a","p">>))

\* the child at place i of frame n is a frame holding the text of the i-th
\* child of the element
TextBearing(h, n, el, i) ==
  /\ h[h[n].children[i]].kind = "FRAME"
  /\ h[h[n].children[i]].src = Append(h[n].src, i)
  /\ Len(h[h[n].children[i]].children) = 1
  /\ h[h[h[n].children[i]].children[1]].kind = "TEXT"
  /\ Read(h[h[h[n].children[i]].children[1]].props, "characters", <<>>)
       = textContentOf(el.children[i].children)

RowOfLeaves(h, n, el) ==
  /\ Len(h[n].children) = Len(el.children)
  /\ \A i \in 1..Len(el.children) : TextBearing(h, n, el, i)
  /\ Read(h[n].props, "layoutMode", "NONE") = "HORIZONTAL"
  /\ Read(h[n].props, "itemSpacing", NaN) = ParseFloat(Get(el.computedStyle, <<"g","a","p">>))
  /\ Has(h[n].props, "counterAxisSpacing") =>
       (Wraps(el.computedStyle) /\ h[n].props["counterAxisSpacing"] = RowGapOf(el.computedStyle))
  /\ (Wraps(el.computedStyle) /\ Less(Num(0), RowGapOf(el.computedStyle)))
       => Has(h[n].props, "counterAxisSpacing")

IsOpaque(bg) == bg.ok /\ ~Less(bg.a, Frac(1, 100))

\* backgroundImage is a linear gradient the Mapper can parse
HasGradient(style) ==
  /\ StartsWith(Get(style, <<"b","a","c","k","g","r","o","u","n","d","I","m","a","g","e">>), <<"l","i","n","e","a","r","-","g","r","a","d","i","e","n","t">>)
  /\ parseLinearGradient(Get(style, <<"b","a","c","k","g","r","o","u","n","d","I","m","a","g","e">>)).ok

GradientFills(gradient) ==
  <<[type |-> gradient.type, angle |-> gradient.angle,
     gradientStops |-> gradient.gradientStops]>>

\* the second half of C10: without an opaque background colour the fill
\* list is empty, unless a parsable linear gradient takes its place
EmptyOrGradient(props, style) ==
  IF HasGradient(style)
    THEN props["fills"] = GradientFills(parseLinearGradient(Get(style, <<"b","a","c","k","g","r","o","u","n","d","I","m","a","g","e">>)))
    ELSE props["fills"] = <<>>

\* the first half of C10 as stated: size W x H, one solid fill, no children
SolidBox(node, el, bg) ==
  /\ node.props["width"] = el.boundingBox.width
  /\ node.props["height"] = el.boundingBox.height
  /\ node.props["fills"] = <<Solid(bg)>>
  /\ node.children = <<>>

\* the first half of C10 with the size the Mapper assigns
SolidRoundedBox(node, el, bg) ==
  /\ node.props["width"] = MathMax(MathRound(el.boundingBox.width), One)
  /\ node.props["height"] = MathMax(MathRound(el.boundingBox.height), One)
  /\ node.props["fills"] = <<Solid(bg)>>
  /\ node.children = <<>>

FrameRoles == {"root", "frame", "textFrame", "form"}

TextNodes(r) == {n \in 1..Len(nodes[r]) : nodes[r][n].kind = "TEXT"}

\* loadFont, called for text node n of run r, has not returned
LoadingFontFor(r, n) == pending[r].op = "font" /\ pending[r].node = n

\* C16: the content of a text node, of the text of a leaf text container and
\* of the text of a form element is assigned only when the font-load attempts
\* made for it are over, and once they are over, which is when the content is
\* assigned, the host has a font loaded that the node can use
C16_FontBeforeContent ==
  \A r \in Runs : \A n \in TextNodes(r) :
    /\ Has(nodes[r][n].props, "characters") => ~LoadingFontFor(r, n)
    /\ ~LoadingFontFor(r, n) => loaded # {}

\* the first half of it: no content before the attempts are over
C16_AttemptsFirst ==
  \A r \in Runs : \A n \in TextNodes(r) :
    Has(nodes[r][n].props, "characters") => (~LoadingFontFor(r, n) /\ loaded # {})


\* the font of the style a text-bearing node was made from
RequiredFont(r, n) == FontOf(Source(nodes[r][n]).computedStyle)

Regular(font) == [family |-> font.family, style |-> <<"R","e","g","u","l","a","r">>]

InterRegular == [family |-> <<"I","n","t","e","r">>, style |-> <<"R","e","g","u","l","a","r">>]

\* the attempts are the first of the expected ones, none but the last succeeded
AttemptsFollow(attempts, expected) ==
  /\ Len(attempts) <= Len(expected)
  /\ \A i \in 1..Len(attempts) :
       /\ attempts[i].font = expected[i]
       /\ i < Len(attempts) => ~attempts[i].ok

\* loadFont goes on exactly while no attempt succeeded and one is left
GoesOnWhileFailing(loading, attempts, most) ==
  IF loading THEN /\ Len(attempts) < most
                  /\ attempts # <<>> => ~attempts[Len(attempts)].ok
  ELSE /\ attempts # <<>>
       /\ attempts[Len(attempts)].ok \/ Len(attempts) = most

Fallback(r, log, expected) ==
  /\ AttemptsFollow(log.attempts, expected)
  /\ GoesOnWhileFailing(LoadingFontFor(r, log.node), log.attempts, Len(expected))

\* C17: loadFont, called for a font that is not recorded as failed, asks the
\* host for the font itself, then for its family at Regular, then for Inter
\* Regular, each only after the one before failed and none after one
\* succeeded; after a third failure it returns like after a success
C17_FallbackOrder ==
  \A r \in Runs :
    (fontLog[r].node # 0 /\ ~fontLog[r].recorded) =>
      Fallback(r, fontLog[r],
               <<RequiredFont(r, fontLog[r].node), Regular(RequiredFont(r, fontLog[r].node)),
                 InterRegular>>)

\* a bold serif text got its content in a run whose three attempts, for
\* three different fonts, all failed
C17_Witness ==
  \E r \in Runs :
    /\ fontLog[r].node # 0
    /\ fontLog[r].attempts =
         <<[font |-> [family |-> <<"R","o","b","o","t","o"," ","S","e","r","i","f">>, style |-> <<"B","o","l","d">>], ok |-> FALSE],
           [font |-> [family |-> <<"R","o","b","o","t","o"," ","S","e","r","i","f">>, style |-> <<"R","e","g","u","l","a","r">>], ok |-> FALSE],
           [font |-> InterRegular, ok |-> FALSE]>>
    /\ Has(nodes[r][fontLog[r].node].props, "characters")

\* C18: loadFont, called in a run for a font recorded as failed in that run,
\* does not ask for the font itself again but for its family at Regular and
\* then for Inter Regular, like the fallback of the call that recorded it; a
\* run that has not begun has no font recorded
C18_RecordedFallback ==
  \A r \in Runs :
    /\ pc[r] = "idle" => fontLoadErrors[r] = {}
    /\ (fontLog[r].node # 0 /\ fontLog[r].recorded) =>
         /\ FontKey(RequiredFont(r, fontLog[r].node)) \in fontLoadErrors[r]
         /\ Fallback(r, fontLog[r],
                     <<Regular(RequiredFont(r, fontLog[r].node)), InterRegular>>)

\* the same with Inter Regular as the whole fallback
C18_DefaultOnly ==
  \A r \in Runs :
    /\ pc[r] = "idle" => fontLoadErrors[r] = {}
    /\ (fontLog[r].node # 0 /\ fontLog[r].recorded) =>
         /\ FontKey(RequiredFont(r, fontLog[r].node)) \in fontLoadErrors[r]
         /\ Fallback(r, fontLog[r], <<InterRegular>>)

\* a font is recorded as failed by a failed attempt for the font itself only
C18_RecordedByExactFailure ==
  [][\A r \in Runs :
       fontLoadErrors'[r] # fontLoadErrors[r] =>
         /\ pending[r].op = "font" /\ pending[r].attempt = "exact"
         /\ fontLoadErrors'[r] = fontLoadErrors[r] \cup {FontKey(FontOf(pending[r].style))}
         /\ fontLog'[r].attempts[Len(fontLog'[r].attempts)] =
              [font |-> FontOf(pending[r].style), ok |-> FALSE]]_vars


ImageNodes(r) == {n \in 1..Len(nodes[r]) : nodes[r][n].role = "image"}

ImageSource(r, n) == Get(Source(nodes[r][n]).attributes, <<"s","r","c">>)

HasImageFill(props) == Has(props, "fills") /\ props["fills"][1].type = "IMAGE"

\* every image fill of the run carries the handle its cache holds for the URL
HandlesFromCache(r) ==
  \A n \in ImageNodes(r) :
    HasImageFill(nodes[r][n].props) =>
      /\ ImageSource(r, n) \in DOMAIN imageCache[r]
      /\ nodes[r][n].props["fills"] = <<ImagePaint(imageCache[r][ImageSource(r, n)])>>

\* a step begins a fetch for a URL that is not in the run's cache only, and
\* changes the cache only by adding the URL whose fetch, begun by the same
\* run, has just succeeded
CachedOnce(r) ==
  /\ (pending'[r] # pending[r] /\ pending'[r].op = "fetch") =>
       pending'[r].url \notin DOMAIN imageCache[r]
  /\ imageCache'[r] # imageCache[r] =>
       /\ pending[r].op = "fetch"
       /\ pending[r].url \notin DOMAIN imageCache[r]
       /\ DOMAIN imageCache'[r] = DOMAIN imageCache[r] \cup {pending[r].url}
       /\ \A url \in DOMAIN imageCache[r] : imageCache'[r][url] = imageCache[r][url]

\* C19: within a run an image whose URL is in the run's cache gets the cached
\* handle and no fetch is begun for it, so that a URL is fetched successfully
\* and registered at most once in a run; a cache changes in steps of its own
\* run only
C19_ImageCache ==
  /\ [](\A r \in Runs : HandlesFromCache(r))
  /\ [][\A r \in Runs : CachedOnce(r)]_vars

\* two images of one run with the same URL carry the same image fill while
\* no fetch is pending
C19_Witness ==
  \E r \in Runs : \E n \in ImageNodes(r) : \E m \in ImageNodes(r) :
    /\ n < m
    /\ ImageSource(r, n) = ImageSource(r, m)
    /\ HasImageFill(nodes[r][n].props)
    /\ nodes[r][m].props["fills"] = nodes[r][n].props["fills"]
    /\ pending[r] = NoCall

LightGray ==
  <<[type |-> "SOLID", color |-> [r |-> Frac(9, 10), g |-> Frac(9, 10), b |-> Frac(9, 10)]]>>

\* createImageNode is over for image n of run r
ImageMapped(r, n) == ~(pending[r].op = "fetch" /\ pending[r].node = n)

ImagePlaced(node) ==
  /\ node.kind = "RECTANGLE"
  /\ node.props["x"] = RelativeX(node) /\ node.props["y"] = RelativeY(node)
  /\ node.props["width"] = MathMax(MathRound(Source(node).boundingBox.width), Num(1))
  /\ node.props["height"] = MathMax(MathRound(Source(node).boundingBox.height), Num(1))

\* C20: an image with a source whose fetch, response or registration failed
\* is a rectangle of the image's size at the image's place, filled with the
\* light gray 0.9, 0.9, 0.9
C20_GrayOnFailure ==
  \A r \in Runs : \A n \in ImageNodes(r) :
    (ImageMapped(r, n) /\ ImageSource(r, n) # <<>> /\ ~HasImageFill(nodes[r][n].props)) =>
      /\ ImagePlaced(nodes[r][n])
      /\ Has(nodes[r][n].props, "fills")
      /\ nodes[r][n].props["fills"] = LightGray

\* the same without the fill
C20_PlacedOnFailure ==
  \A r \in Runs : \A n \in ImageNodes(r) :
    (ImageMapped(r, n) /\ ImageSource(r, n) # <<>> /\ ~HasImageFill(nodes[r][n].props)) =>
      (ImagePlaced(nodes[r][n]) /\ ~Has(nodes[r][n].props, "fills"))


\* a snapshot element with at least one child, all of whose children are
\* texts and one of them not blank
OnlyTexts(el) ==
  /\ Len(el.children) > 0
  /\ \A i \in 1..Len(el.children) : el.children[i].type = "text"
  /\ \E i \in 1..Len(el.children) : Trim(el.children[i].content) # <<>>

\* what the first rule that matches a snapshot node makes of it
FirstRule(el) ==
  IF "type" \in DOMAIN el /\ el.type = "text" THEN {"text"}
  ELSE IF el.tag = <<"i","m","g">> THEN {"image"}
  ELSE IF el.tag = <<"s","v","g">> THEN {"vector", "placeholder"}
  ELSE IF el.tag \in {<<"i","n","p","u","t">>, <<"t","e","x","t","a","r","e","a">>, <<"s","e","l","e","c","t">>} THEN {"form"}
  ELSE IF el.tag = <<"h","r">> THEN {"divider"}
  ELSE IF OnlyTexts(el) THEN {"textFrame"}
  ELSE {"frame"}

IsPrefix(p, q) == Len(p) < Len(q) /\ SubSeq(q, 1, Len(p)) = p

\* no node of run r was made from a snapshot node below that of node n
NotRecursed(r, n) ==
  \A m \in 1..Len(nodes[r]) : ~IsPrefix(nodes[r][n].src, nodes[r][m].src)

\* a snapshot node mapNode returns a host node for
Mapped(el) == el.type = "element" \/ Trim(el.content) # <<>>

\* every child of the source of frame n of run r was made a node of
EachChildMapped(r, n) ==
  \A i \in 1..Len(Source(nodes[r][n]).children) :
    Mapped(Source(nodes[r][n]).children[i]) =>
      \E m \in 1..Len(nodes[r]) :
        /\ nodes[r][m].src = Append(nodes[r][n].src, i)
        /\ nodes[r][m].role \in SnapshotRoles

\* C21: a node made from a snapshot element is what the first matching rule
\* of the order img, svg, input/textarea/select, hr, text children only,
\* general frame makes of it; only a general frame is recursed into, and a
\* general frame of a completed run has a node for each of its children
C21_Dispatch ==
  \A r \in Runs : \A n \in 2..Len(nodes[r]) :
    nodes[r][n].role \in SnapshotRoles =>
      /\ nodes[r][n].role \in FirstRule(Source(nodes[r][n]))
      /\ nodes[r][n].role # "frame" => NotRecursed(r, n)
      /\ (nodes[r][n].role = "frame" /\ pc[r] = "done") => EachChildMapped(r, n)

MadeFrom(r, role, tag) ==
  \E n \in 2..Len(nodes[r]) :
    /\ nodes[r][n].role = role
    /\ Source(nodes[r][n]).tag = tag
    /\ Len(Source(nodes[r][n]).children) > 0

\* a completed run made a vector of an svg with children, and a completed
\* run made a form frame of a textarea whose only child is a text, and a
\* completed run made a general frame with two children
C21_Witness ==
  /\ \E r \in Runs : pc[r] = "done" /\ MadeFrom(r, "vector", <<"s","v","g">>)
  /\ \E r \in Runs : pc[r] = "done" /\ MadeFrom(r, "form", <<"t","e","x","t","a","r","e","a">>)
  /\ \E r \in Runs : \E n \in 2..Len(nodes[r]) :
       pc[r] = "done" /\ nodes[r][n].role = "frame" /\ Len(nodes[r][n].children) = 2


\* a step in which run r begins a call of loadFont or a fetch begins it for
\* the node the step has just created
OncePerNode(r) ==
  /\ fontLog'[r].node # fontLog[r].node =>
       /\ Len(nodes'[r]) = Len(nodes[r]) + 1 \/ Len(nodes'[r]) = Len(nodes[r]) + 2
       /\ fontLog'[r].node = Len(nodes'[r])
  /\ (pending'[r] # pending[r] /\ pending'[r].op = "fetch") =>
       /\ Len(nodes'[r]) = Len(nodes[r]) + 1
       /\ pending'[r].node = Len(nodes'[r])
       /\ pending[r].op # "fetch"

\* a step of run r asks the host for a font only as an attempt of the run's
\* latest call of loadFont
AttemptsLogged(r) ==
  (pending'[r] # pending[r] /\ pending'[r].op = "font") =>
    /\ pending'[r].node = fontLog'[r].node
    /\ Len(fontLog'[r].attempts) < 3

\* C22: a call of loadFont makes at most three attempts, a run begins at most
\* one call of loadFont for a node and at most one fetch for an image node,
\* and, when the run's steps and host calls are taken in the end, a run that
\* is mapping ends: mapToFigma returns or throws
C22_Terminates ==
  /\ [](\A r \in Runs : Len(fontLog[r].attempts) <= 3)
  /\ [][\A r \in Runs : OncePerNode(r) /\ AttemptsLogged(r)]_vars
  /\ \A r \in Runs : (pc[r] = "mapping") ~> (pc[r] \in {"done", "failed"})

\* a run returned after a call of loadFont with three attempts and a fetch
C22_Witness ==
  \E r \in Runs :
    /\ pc[r] = "done"
    /\ Len(fontLog[r].attempts) = 3
    /\ \E n \in ImageNodes(r) : ImageSource(r, n) # <<>>


AtLeastOne(x) == ~IsNaN(x) /\ ~Less(x, One)

\* max(round(x), 1)
RoundedUp(x) == IF Less(MathRound(x), One) THEN One ELSE MathRound(x)

NotNegative(x) == ~IsNaN(x) /\ ~Less(x, Num(0))

\* the box of the snapshot node has a width and a height that are not negative
HasSize(el) == NotNegative(el.boundingBox.width) /\ NotNegative(el.boundingBox.height)

\* the node has been resized by the function that made it: a text is
\* resized once its font is settled, at the end of createTextNode, which
\* returns it to be appended
IsResized(node) == node.role # "text" \/ node.parent # 0

\* C23: a node made from a snapshot node whose box has a width and a height
\* of at least 0 has the size max(round(width), 1) by max(round(height), 1);
\* the root frame of a run that is mapping or has returned is at least 1 by 1;
\* no node has a width or a height below 1
C23_MinimumSize ==
  \A r \in Runs : \A n \in 1..Len(nodes[r]) :
    /\ (n = 1 /\ pc[r] \in {"mapping", "done"}) =>
         /\ Has(nodes[r][n].props, "width") /\ Has(nodes[r][n].props, "height")
         /\ AtLeastOne(nodes[r][n].props["width"])
         /\ AtLeastOne(nodes[r][n].props["height"])
    /\ (nodes[r][n].role \in SnapshotRoles /\ HasSize(Source(nodes[r][n]))
        /\ IsResized(nodes[r][n])) =>
         /\ Has(nodes[r][n].props, "width") /\ Has(nodes[r][n].props, "height")
         /\ nodes[r][n].props["width"] = RoundedUp(Source(nodes[r][n]).boundingBox.width)
         /\ nodes[r][n].props["height"] = RoundedUp(Source(nodes[r][n]).boundingBox.height)
    /\ Has(nodes[r][n].props, "width") => AtLeastOne(nodes[r][n].props["width"])
    /\ Has(nodes[r][n].props, "height") => AtLeastOne(nodes[r][n].props["height"])

\* a completed run made a frame and a divider of boxes without a width and
\* an image of a box without a height, each 1 wide or 1 high
C23_Witness ==
  \E r \in Runs :
    /\ pc[r] = "done"
    /\ \E n \in 2..Len(nodes[r]) :
         /\ nodes[r][n].role = "frame"
         /\ Source(nodes[r][n]).boundingBox.width = Num(0)
         /\ nodes[r][n].props["width"] = One
    /\ \E n \in 2..Len(nodes[r]) :
         /\ nodes[r][n].role = "divider"
         /\ Source(nodes[r][n]).boundingBox.width = Num(0)
         /\ nodes[r][n].props["width"] = One
    /\ \E n \in 2..Len(nodes[r]) :
         /\ nodes[r][n].role = "image"
         /\ Source(nodes[r][n]).boundingBox.height = Num(0)
         /\ nodes[r][n].props["height"] = One


OnStack(r, n) == \E i \in 1..Len(stack[r]) : stack[r][i].id = n

\* the loop over the children of the source of frame n of run r is over: a
\* node was made of every child mapNode returns a node for, and it is a
\* child of the frame
ChildrenAppended(r, n) ==
  /\ ~OnStack(r, n)
  /\ \A i \in 1..Len(Source(nodes[r][n]).children) :
       Mapped(Source(nodes[r][n]).children[i]) =>
         \E m \in 1..Len(nodes[r]) :
           /\ nodes[r][m].src = Append(nodes[r][n].src, i)
           /\ nodes[r][m].parent = n

FixedOnBothAxes(props) ==
  /\ Has(props, "layoutSizingHorizontal") /\ props["layoutSizingHorizontal"] = "FIXED"
  /\ Has(props, "layoutSizingVertical") /\ props["layoutSizingVertical"] = "FIXED"

\* tryApplyAutoLayout has run on the root or general frame n of run r
Inferred(r, n) ==
  IF n = 1 THEN pc[r] = "done" ELSE nodes[r][n].role = "frame" /\ nodes[r][n].parent # 0

\* C25: a root or general frame has auto-layout parameters only once all the
\* children of its element are mapped and appended; once Auto-Layout
\* Inference has run on a frame made from a flex or inline-flex element, the
\* frame has fixed sizing on both axes, and so has every child of it,
\* whatever sizing the child was built with
C25_AfterChildren ==
  \A r \in Runs : \A n \in 1..Len(nodes[r]) :
    nodes[r][n].role \in {"root", "frame"} =>
      /\ Has(nodes[r][n].props, "layoutMode") => ChildrenAppended(r, n)
      /\ (Inferred(r, n) /\ IsFlex(Source(nodes[r][n]).computedStyle)) =>
           /\ Has(nodes[r][n].props, "layoutMode")
           /\ FixedOnBothAxes(nodes[r][n].props)
           /\ \A i \in 1..Len(nodes[r][n].children) :
                FixedOnBothAxes(nodes[r][nodes[r][n].children[i]].props)

\* a completed run made a general frame from a flex element with a leaf text
\* frame in it, which was built to hug its height
C25_Witness ==
  \E r \in Runs : \E n \in 2..Len(nodes[r]) :
    /\ pc[r] = "done"
    /\ nodes[r][n].role = "frame"
    /\ IsFlex(Source(nodes[r][n]).computedStyle)
    /\ \E i \in 1..Len(nodes[r][n].children) :
         /\ nodes[r][nodes[r][n].children[i]].role = "textFrame"
         /\ FixedOnBothAxes(nodes[r][nodes[r][n].children[i]].props)


RECURSIVE PathBefore(_, _)
\* the snapshot node at p comes before the one at q in a depth-first
\* traversal: p is above q, or left of it
PathBefore(p, q) ==
  IF p = <<>> THEN q # <<>>
  ELSE IF q = <<>> THEN FALSE
  ELSE IF Head(p) = Head(q) THEN PathBefore(Tail(p), Tail(q))
  ELSE Head(p) < Head(q)

\* the nodes a run made from snapshot nodes
Made(r) == {n \in 2..Len(nodes[r]) : nodes[r][n].role \in SnapshotRoles}

Siblings(p, q) ==
  /\ Len(p) = Len(q)
  /\ SubSeq(p, 1, Len(p) - 1) = SubSeq(q, 1, Len(q) - 1)

Last(p) == p[Len(p)]

\* the children of node n made from snapshot nodes lie in the order of the
\* snapshot children
InSnapshotOrder(h, n) ==
  \A i \in 1..Len(h[n].children) : \A j \in 1..Len(h[n].children) :
    (i < j /\ h[h[n].children[i]].role \in SnapshotRoles
           /\ h[h[n].children[j]].role \in SnapshotRoles) =>
      Last(h[h[n].children[i]].src) < Last(h[h[n].children[j]].src)

\* C27: a run makes its nodes in the order of a depth-first traversal of the
\* snapshot; the one call of the host it awaits is for the node it made
\* last; when a node is made of a child, the nodes of the children before it
\* are complete and appended; the children of every node lie in the order of
\* the snapshot children they were made from
C27_Sequential ==
  \A r \in Runs :
    /\ \A n \in Made(r) : \A m \in Made(r) :
         n < m => PathBefore(nodes[r][n].src, nodes[r][m].src)
    /\ pending[r] # NoCall => pending[r].node = Len(nodes[r])
    /\ \A n \in Made(r) : \A m \in Made(r) :
         (n < m /\ Siblings(nodes[r][n].src, nodes[r][m].src)) =>
           (nodes[r][n].parent # 0 /\ ~OnStack(r, n))
    /\ \A n \in 1..Len(nodes[r]) : InSnapshotOrder(nodes[r], n)

\* a completed run awaited a font for the first child of the root and a
\* fetch for the second, and the root has the text before the image
C27_Witness ==
  \E r \in Runs :
    /\ pc[r] = "done"
    /\ Len(nodes[r][1].children) = 2
    /\ nodes[r][nodes[r][1].children[1]].role = "text"
    /\ nodes[r][nodes[r][1].children[2]].role = "image"
    /\ HasImageFill(nodes[r][nodes[r][1].children[2]].props)


IsProgress(message) == message.type = "import-progress"

\* the percentages the progress callback of run r was called with, in order
Percentages(r) ==
  [i \in 1..Len(SelectSeq(ui[r], IsProgress)) |-> SelectSeq(ui[r], IsProgress)[i].percent]

NonDecreasing(p) == \A i \in 1..Len(p) : \A j \in 1..Len(p) : i < j => p[i] <= p[j]

RECURSIVE Descendants(_, _)
\* the number of snapshot nodes in and below the nodes from the i-th on
Descendants(children, i) ==
  IF i > Len(children) THEN 0
  ELSE 1 + (IF children[i].type = "element" THEN Descendants(children[i].children, 1) ELSE 0)
         + Descendants(children, i + 1)

\* the reports between those of the two phases at the start and the last one
PerDescendant(p) == {i \in 1..Len(p) : i > 2 /\ ~(i = Len(p) /\ p[i] = 100)}

Reported(r, p) ==
  /\ NonDecreasing(p)
  /\ \A i \in 1..Len(p) : p[i] >= 0 /\ p[i] <= 100
  /\ Len(p) >= 1 => p[1] = 10
  /\ Len(p) >= 2 => p[2] = 20
  /\ \A i \in PerDescendant(p) : p[i] <= 80
  /\ pc[r] = "done" => (Len(p) >= 3 /\ p[Len(p)] = 100)

\* the properties of a node that do not depend on what the host answered or
\* on the imports already on the page: all but the font of a text, the fill
\* of an image and the place of the root
Answered(node, n) ==
  IF n = 1 THEN {"x", "y"}
  ELSE IF node.role = "image" THEN {"fills"}
  ELSE {"fontName"}

TreeOf(h) ==
  [n \in 1..Len(h) |->
     [h[n] EXCEPT !.props = [k \in DOMAIN h[n].props \ Answered(h[n], n) |-> h[n].props[k]]]]

\* C28: the percentages the callback of a run is called with never decrease,
\* lie between 0 and 100 and begin with 10; those of the descendants are at
\* most 80, as the count of processed nodes is at most the number of nodes
\* below the root; a run that returns reports 100 last; and a run without a
\* callback returns the tree a run with one returns
C28_Progress ==
  /\ \A r \in Runs : processed[r] <= Descendants(dom.children, 1)
                     \/ (processed[r] = 0 /\ dom.children = <<>>)
  /\ \A r \in Runs : IF callback[r] THEN Reported(r, Percentages(r))
                     ELSE Percentages(r) = <<>>
  /\ \A r1 \in Runs : \A r2 \in Runs :
       (pc[r1] = "done" /\ pc[r2] = "done" /\ SameImports(nodes[r1], nodes[r2]))
         => TreeOf(nodes[r1]) = TreeOf(nodes[r2])

\* a run with a callback and a run without one returned trees of at least
\* three nodes, and the callback was called for a descendant with a
\* percentage between 20 and 80
C28_Witness ==
  \E r1 \in Runs : \E r2 \in Runs :
    /\ pc[r1] = "done" /\ pc[r2] = "done"
    /\ callback[r1] /\ ~callback[r2]
    /\ SameImports(nodes[r1], nodes[r2])
    /\ Len(nodes[r1]) >= 3
    /\ \E i \in PerDescendant(Percentages(r1)) :
         Percentages(r1)[i] > 20 /\ Percentages(r1)[i] < 80


TerminalTypes == {"import-complete", "import-error"}

\* the log holds its terminal message
Ended(log) == Len(log) >= 1 /\ log[Len(log)].type \in TerminalTypes

\* import-started, then import-progress only, then at most one terminal message
InSequence(log) ==
  \A i \in 1..Len(log) :
    IF i = 1 THEN log[i].type = "import-started"
    ELSE IF i < Len(log) THEN log[i].type = "import-progress"
    ELSE log[i].type \in {"import-progress"} \cup TerminalTypes

\* the log q holds the messages of the log p and those sent since
Continued(p, q) == Len(p) <= Len(q) /\ SubSeq(q, 1, Len(p)) = p

LogOf(r) ==
  /\ InSequence(ui[r])
  /\ pc[r] = "idle" <=> ui[r] = <<>>
  /\ pc[r] = "mapping" => ~Ended(ui[r])
  /\ pc[r] = "done" => ui[r][Len(ui[r])].type = "import-complete"
  /\ pc[r] = "failed" => ui[r][Len(ui[r])].type = "import-error"

\* C29: the messages an import sends to the UI are one import-started, then
\* import-progress messages, then one terminal message, import-complete or
\* import-error; nothing is sent after the terminal message, every import
\* that began sends one, and this holds of each of the interleaved imports
C29_MessageSequence ==
  /\ [](\A r \in Runs : LogOf(r))
  /\ [][\A r \in Runs : /\ Continued(ui[r], ui'[r])
                        /\ Ended(ui[r]) => ui'[r] = ui[r]]_vars
  /\ \A r \in Runs : (ui[r] # <<>>) ~> Ended(ui[r])

\* an import that began second has sent import-complete while the one that
\* began first is suspended at a call of the host, its progress reported
C29_Witness ==
  \E r1 \in Runs : \E r2 \in Runs :
    /\ Len(pageOrder) = 2 /\ pageOrder[1] = r2 /\ pageOrder[2] = r1
    /\ pc[r1] = "done" /\ Ended(ui[r1]) /\ Len(ui[r1]) >= 5
    /\ pc[r2] = "mapping" /\ pending[r2] # NoCall /\ Len(ui[r2]) >= 3


\* ------------------------------------------------- translators: lengths --

RECURSIVE DigitsOf(_)
\* the decimal digits of a natural number
DigitsOf(m) ==
  IF m < 10 THEN <<Digits[m + 1]>> ELSE DigitsOf(m \div 10) \o <<Digits[(m % 10) + 1]>>

RECURSIVE ZeroPadded(_, _)
ZeroPadded(ds, k) == IF Len(ds) >= k THEN ds ELSE ZeroPadded(<<"0">> \o ds, k)

\* the most fraction digits of a number written into a length
MaxDecimals == 8

\* the number of fraction digits x needs
DecimalsOf(x) == CHOOSE k \in 0..MaxDecimals :
  /\ Pow10(k) % x.d = 0
  /\ \A j \in 0..(k - 1) : Pow10(j) % x.d # 0

Exponential(ds, e) ==
  <<Head(ds)>> \o (IF Len(ds) > 1 THEN <<".">> \o Tail(ds) ELSE <<>>) \o <<"e","-">> \o DigitsOf(-e)

Positional(m, k) ==
  DigitsOf(m \div Pow10(k)) \o <<".">> \o ZeroPadded(DigitsOf(m % Pow10(k)), k)

Written(m, k, ds) ==
  IF k = 0 THEN ds
  ELSE IF Len(ds) - k > -6 THEN Positional(m, k)
  ELSE Exponential(ds, Len(ds) - k - 1)

Unsign(m, k) == Written(m, k, DigitsOf(m))

Magnitude(x, k) == Unsign(Abs(x.n) * (Pow10(k) \div x.d), k)

\* a number as JavaScript writes it into a string: the shortest decimal, in
\* exponent form below 0.000001
NumberToString(x) ==
  (IF x.n < 0 THEN <<"-">> ELSE <<>>) \o Magnitude(x, DecimalsOf(x))

\* the numbers written into lengths
LengthNumbers ==
  { Num(0), Num(1), Num(16), Num(-2), Num(100), Num(1440), Frac(3, 2), Frac(1, 4),
    Frac(-1, 2), Frac(51, 4), Frac(1, 10000000), Frac(1, 4000000) }

LengthUnits == { <<"p","x">>, <<"r","e","m">>, <<"%">>, <<>> }

\* values that do not start with a number
UnparsableLengths ==
  { <<"a","b","c">>, <<"p","x">>, <<"c","a","l","c","(","1","p","x"," ","+"," ","2","p","x",")">>, <<".">>, <<"-">>, <<" ">>, <<"i","n","h","e","r","i","t">>, <<"e","5">>, <<"v","a","r","(","-","-","g","a","p",")">>, <<"-",".","p","x">> }

LengthValues ==
  { NumberToString(n) \o unit : n \in LengthNumbers, unit \in LengthUnits }
    \cup { <<"0">>, <<"a","u","t","o">>, <<"n","o","n","e">>, <<>> } \cup UnparsableLengths

\* the reference sizes a caller passes; NaN stands for no reference size
ReferenceSizes == { NaN, Num(0), Num(200), Num(50) }

LengthCalls ==
  { [fn |-> "parseCSSLength", value |-> value, parentSize |-> parentSize] :
      value \in LengthValues, parentSize \in ReferenceSizes }

\* a call of parseCSSLength(value, parentSize) returns
parseCSSLengthCall ==
  /\ input.fn = "parseCSSLength"
  /\ output = Pending
  /\ output' = Return(parseCSSLength(input.value, input.parentSize))
  /\ UNCHANGED <<input, parserVars, captureVars, dom, mapperVars>>

\* one of the calls is made; nothing is captured, parsed or mapped
Calling(calls) ==
  /\ input \in calls
  /\ output = Pending
  /\ live = NoDocument
  /\ via = "none"
  /\ dom = NotCaptured
  /\ MapperIdle
  /\ ParserIdle

InitLength == Calling(LengthCalls)

NextLength == parseCSSLengthCall

SpecLength == InitLength /\ [][NextLength]_vars

LengthReturned == input.fn = "parseCSSLength" /\ output.done

PxExact ==
  \A n \in LengthNumbers : input.value = NumberToString(n) \o <<"p","x">> => output.value = n

RemSixteen ==
  \A n \in LengthNumbers :
    input.value = NumberToString(n) \o <<"r","e","m">> => output.value = Times(n, Num(16))

ZeroForNone ==
  input.value \in { <<"0">>, <<"a","u","t","o">>, <<"n","o","n","e">>, <<>> } \cup UnparsableLengths => output.value = Num(0)

PercentOfReference ==
  \A n \in LengthNumbers :
    (input.value = NumberToString(n) \o <<"%">> /\ ~IsNaN(input.parentSize)) =>
      output.value = Times(Over(n, Num(100)), input.parentSize)

UnitlessUnchanged ==
  \A n \in LengthNumbers : input.value = NumberToString(n) => output.value = n

\* C11: parseCSSLength returns n for "<n>px" and 16n for "<n>rem"; 0 for "0",
\* "auto", "none", the empty or absent value and every value that does not
\* start with a number; for "<n>%" the fraction n/100 of the reference size
\* the caller supplied; and n for the unitless "<n>"
C11_LengthTranslate ==
  LengthReturned =>
    /\ PxExact
    /\ RemSixteen
    /\ ZeroForNone
    /\ PercentOfReference
    /\ UnitlessUnchanged

\* the same without the percentages
C11_ExceptPercent ==
  LengthReturned => (PxExact /\ RemSixteen /\ ZeroForNone /\ UnitlessUnchanged)

\* a percentage of a reference size other than 0
C11_PercentOfNonZero ==
  (LengthReturned /\ input.parentSize # Num(0)) => PercentOfReference


\* ------------------------------------------------- translators: colours ---

\* the hex digits the colours are written with
SomeHexDigits == { "0", "9", "a", "B", "c" }

\* the bytes the long forms are written with
SomeHexBytes == { <<"0","0">>, <<"a","A">>, <<"7","f">>, <<"F","f">>, <<"c","8">> }

Hash(digits) == <<"#">> \o digits

ShortHexColors ==
  { Hash(<<r, g, b>>) : r \in SomeHexDigits, g \in SomeHexDigits, b \in SomeHexDigits }
    \cup { Hash(<<rg[1], rg[2], ba[1], ba[2]>>) :
             rg \in SomeHexDigits \X SomeHexDigits, ba \in SomeHexDigits \X SomeHexDigits }

LongHexColors ==
  { Hash(r \o g \o b) : r \in SomeHexBytes, g \in SomeHexBytes, b \in SomeHexBytes }
    \cup { Hash(rg[1] \o rg[2] \o ba[1] \o ba[2]) :
             rg \in SomeHexBytes \X SomeHexBytes, ba \in SomeHexBytes \X SomeHexBytes }

HexColors == ShortHexColors \cup LongHexColors

ColorCalls == { [fn |-> "parseCSSColor", color |-> color] : color \in HexColors }

\* a call of parseCSSColor(color) returns
parseCSSColorCall ==
  /\ input.fn = "parseCSSColor"
  /\ output = Pending
  /\ output' = Return(parseCSSColor(input.color))
  /\ UNCHANGED <<input, parserVars, captureVars, dom, mapperVars>>

InitColor == Calling(ColorCalls)

NextColor == parseCSSColorCall

SpecColor == InitColor /\ [][NextColor]_vars

RECURSIVE EachTwice(_)
EachTwice(digits) ==
  IF digits = <<>> THEN <<>>
  ELSE <<Head(digits), Head(digits)>> \o EachTwice(Tail(digits))

\* #abc written as #aabbcc, #abcd as #aabbccdd
LongForm(color) == Hash(EachTwice(Tail(color)))

InUnitInterval(x) == ~IsNaN(x) /\ ~Less(x, Num(0)) /\ ~Less(Num(1), x)

IsColor(c) ==
  /\ c.ok
  /\ InUnitInterval(c.r) /\ InUnitInterval(c.g) /\ InUnitInterval(c.b) /\ InUnitInterval(c.a)

\* C12: parseCSSColor of a hex colour of 3, 4, 6 or 8 digits returns r, g, b
\* and a between 0 and 1; a colour of 3 or 4 digits gets what its long form
\* with every digit doubled gets; a colour of 3 or 6 digits gets a = 1
C12_HexColors ==
  (input.fn = "parseCSSColor" /\ output.done) =>
    /\ IsColor(output.value)
    /\ Len(input.color) \in {4, 5} => output.value = parseCSSColor(LongForm(input.color))
    /\ Len(input.color) \in {4, 7} => output.value.a = Num(1)

\* #aBc and #aBc9 have been translated
C12_Witness ==
  \/ /\ input = [fn |-> "parseCSSColor", color |-> <<"#","a","B","c">>]
     /\ output = Return(RGBA(Frac(170, 255), Frac(187, 255), Frac(204, 255), Num(1)))
  \/ /\ input = [fn |-> "parseCSSColor", color |-> <<"#","a","B","c","9">>]
     /\ output = Return(RGBA(Frac(170, 255), Frac(187, 255), Frac(204, 255), Frac(153, 255)))


\* ------------------------------------------------- translators: shadows ---

RECURSIVE Joined(_, _)
\* Array.prototype.join
Joined(parts, sep) ==
  IF parts = <<>> THEN <<>>
  ELSE IF Len(parts) = 1 THEN parts[1]
  ELSE parts[1] \o sep \o Joined(Tail(parts), sep)

\* the colours of the entries, <<>> for an entry without a colour
ShadowColors ==
  { <<>>, <<"r","g","b","a","(","0",",","0",",","0",",","0",".","5",")">>, <<"r","g","b","(","2","5","5",","," ","0",","," ","0",")">>, <<"#","f","0","0">>, <<"r","e","d">>, <<"h","s","l","a","(","0",","," ","0","%",","," ","0","%",","," ","0",".","3",")">> }

\* the lengths of the entries, in px
ShadowLengths ==
  { <<>>, <<Num(2)>>, <<Num(2), Num(4)>>, <<Num(0), Num(0), Num(4)>>,
    <<Num(2), Num(4), Num(8), Num(0)>>, <<Num(-1), Frac(3, 2)>>,
    <<Num(0), Num(2), Num(4), Num(1)>> }

\* an entry of a box-shadow list: where its inset keyword stands ("no" when
\* it has none), its colour, whether the colour comes before the lengths
ShadowEntries ==
  [inset : {"no", "first", "last"}, color : ShadowColors, colorFirst : BOOLEAN,
   lengths : ShadowLengths]

\* the entries that shadow lists of two are made of
PairedEntries ==
  { e \in ShadowEntries :
      /\ e.inset \in {"no", "first"}
      /\ e.colorFirst
      /\ e.color \in {<<"r","g","b","a","(","0",",","0",",","0",",","0",".","5",")">>, <<"#","f","0","0">>}
      /\ e.lengths \in {<<Num(2)>>, <<Num(2), Num(4)>>, <<Num(0), Num(0), Num(4)>>} }

ShadowLists ==
  { <<>> } \cup { <<e>> : e \in ShadowEntries }
    \cup { <<e1, e2>> : e1 \in PairedEntries, e2 \in PairedEntries }

WrittenLengths(lengths) == [i \in 1..Len(lengths) |-> NumberToString(lengths[i]) \o <<"p","x">>]

Optional(present, token) == IF present THEN <<token>> ELSE <<>>

\* an entry as CSS text
WrittenEntry(e) ==
  Joined(Optional(e.inset = "first", <<"i","n","s","e","t">>)
           \o Optional(e.color # <<>> /\ e.colorFirst, e.color)
           \o WrittenLengths(e.lengths)
           \o Optional(e.color # <<>> /\ ~e.colorFirst, e.color)
           \o Optional(e.inset = "last", <<"i","n","s","e","t">>),
         <<" ">>)

WrittenShadows(entries) == Joined([i \in 1..Len(entries) |-> WrittenEntry(entries[i])], <<","," ">>)

ShadowCalls ==
  { [fn |-> "parseBoxShadow", entries |-> entries, shadow |-> WrittenShadows(entries)] :
      entries \in ShadowLists }
    \cup { [fn |-> "parseBoxShadow", entries |-> <<>>, shadow |-> <<"n","o","n","e">>] }

\* a call of parseBoxShadow(shadow) returns
parseBoxShadowCall ==
  /\ input.fn = "parseBoxShadow"
  /\ output = Pending
  /\ output' = Return(parseBoxShadow(input.shadow))
  /\ UNCHANGED <<input, parserVars, captureVars, dom, mapperVars>>

InitShadow == Calling(ShadowCalls)

NextShadow == parseBoxShadowCall

SpecShadow == InitShadow /\ [][NextShadow]_vars

RECURSIVE WithTwoLengths(_)
\* the entries with at least two lengths, in order
WithTwoLengths(entries) ==
  IF entries = <<>> THEN <<>>
  ELSE (IF Len(Head(entries).lengths) >= 2 THEN <<Head(entries)>> ELSE <<>>)
         \o WithTwoLengths(Tail(entries))

LengthAt(lengths, i) == IF Len(lengths) >= i THEN lengths[i] ELSE Num(0)

ShadowGeometry(shadow, e) ==
  /\ shadow.offsetX = e.lengths[1]
  /\ shadow.offsetY = e.lengths[2]
  /\ shadow.blur = LengthAt(e.lengths, 3)
  /\ shadow.spread = LengthAt(e.lengths, 4)
  /\ shadow.inset = (e.inset # "no")

ShadowsAre(shadows, entries, colours) ==
  /\ Len(shadows) = Len(entries)
  /\ \A i \in 1..Len(entries) :
       /\ ShadowGeometry(shadows[i], entries[i])
       /\ entries[i].color \in colours => shadows[i].color = entries[i].color

ShadowsReturned == input.fn = "parseBoxShadow" /\ output.done

\* C13: parseBoxShadow returns one shadow for each entry with at least two
\* lengths, in the order of the list cut at the commas outside parentheses,
\* with the first two lengths as offsets, the third as blur and the fourth as
\* spread (0 when missing), the colour of the entry, and inset exactly for an
\* entry with the inset keyword; "rgba(0,0,0,0.5) 2px 4px 8px 0px" gives a
\* colour of alpha 0.5
C13_BoxShadows ==
  ShadowsReturned =>
    /\ ShadowsAre(output.value, WithTwoLengths(input.entries), ShadowColors \ {<<>>})
    /\ input.shadow = <<"r","g","b","a","(","0",",","0",",","0",",","0",".","5",")"," ","2","p","x"," ","4","p","x"," ","8","p","x"," ","0","p","x">> =>
         parseCSSColor(output.value[1].color).a = Frac(1, 2)

\* the same, the colour looked at only where it is rgb(), rgba(), hsla() or hex
C13_ExceptNamedColors ==
  ShadowsReturned =>
    ShadowsAre(output.value, WithTwoLengths(input.entries), ShadowColors \ {<<>>, <<"r","e","d">>})


\* ------------------------------------------------- translators: frames ----

\* background images whose stops name a property of Object.prototype
PrototypeKeyImages ==
  { <<"l","i","n","e","a","r","-","g","r","a","d","i","e","n","t","(","c","o","n","s","t","r","u","c","t","o","r",","," ","r","e","d",")">>, <<"l","i","n","e","a","r","-","g","r","a","d","i","e","n","t","(","t","o"," ","r","i","g","h","t",","," ","r","e","d",","," ","_","_","p","r","o","t","o","_","_",")">> }

\* background images that are no linear gradient of two colours parseCSSColor
\* knows, written without a parenthesis inside
UnparsableImages ==
  { <<>>, <<"n","o","n","e">>, <<"u","r","l","(","a",".","p","n","g",")">>, <<"l","i","n","e","a","r","-","g","r","a","d","i","e","n","t","(">>, <<"l","i","n","e","a","r","-","g","r","a","d","i","e","n","t","(",")">>,
    <<"l","i","n","e","a","r","-","g","r","a","d","i","e","n","t","(","r","e","d",")">>, <<"l","i","n","e","a","r","-","g","r","a","d","i","e","n","t","(","4","5","d","e","g",","," ","f","o","o",","," ","b","a","r",")">>,
    <<"l","i","n","e","a","r","-","g","r","a","d","i","e","n","t","(","t","o"," ","r","i","g","h","t",","," ","r","g","b","(","2","5","5",","," ","0",","," ","0",")",","," ","r","g","b","(","0",","," ","0",","," ","2","5","5",")",")">>,
    <<"l","i","n","e","a","r","-","g","r","a","d","i","e","n","t","(","t","o"," ","r","i","g","h","t",","," ","r","e","d"," ","0","%",","," ","b","l","u","e"," ","1","0","0","%",")">>,
    <<"r","a","d","i","a","l","-","g","r","a","d","i","e","n","t","(","r","e","d",","," ","b","l","u","e",")">>, <<"c","o","n","i","c","-","g","r","a","d","i","e","n","t","(","r","e","d",","," ","b","l","u","e",")">>,
    <<"l","i","n","e","a","r","-","g","r","a","d","i","e","n","t","(","t","o"," ","r","i","g","h","t",","," ","r","e","d",",">> } \cup PrototypeKeyImages

\* background images with two colours parseCSSColor knows; the first part of
\* the last one is skipped like a colour that is not known
ParsableImages ==
  { <<"l","i","n","e","a","r","-","g","r","a","d","i","e","n","t","(","t","o"," ","r","i","g","h","t",","," ","#","f","0","0",","," ","b","l","u","e",")">>, <<"l","i","n","e","a","r","-","g","r","a","d","i","e","n","t","(","9","0","d","e","g",","," ","r","e","d",","," ","b","l","u","e",")">>,
    <<"l","i","n","e","a","r","-","g","r","a","d","i","e","n","t","(","0",".","5","t","u","r","n",","," ","r","e","d",","," ","b","l","u","e",")">> }

\* box shadows without an entry of two px lengths
UnparsableShadows ==
  { <<>>, <<"n","o","n","e">>, <<"r","e","d">>, <<"2","p","x">>, <<"i","n","s","e","t">>, <<"0"," ","0"," ","4","p","x"," ","r","e","d">>, <<"2","e","m"," ","2","e","m"," ","b","l","a","c","k">>, <<",">>,
    <<"c","a","l","c","(","1","p","x",")"," ","f","o","o">>, <<"c","o","n","s","t","r","u","c","t","o","r"," ","1","p","x">>, <<"2"," ","p","x"," ","4"," ","p","x"," ","r","e","d">> }

ParsableShadows == { <<"2","p","x"," ","4","p","x"," ","r","e","d">>, <<"r","g","b","a","(","0",",","0",",","0",",","0",".","5",")"," ","2","p","x"," ","4","p","x"," ","8","p","x"," ","0","p","x">> }

FrameBackgrounds == { <<>>, <<"r","g","b","(","2","5","5",","," ","0",","," ","0",")">>, <<"r","g","b","a","(","0",","," ","0",","," ","0",","," ","0",")">> }

FrameStyles ==
  { (<<"b","a","c","k","g","r","o","u","n","d","C","o","l","o","r">> :> color) @@ (<<"b","a","c","k","g","r","o","u","n","d","I","m","a","g","e">> :> image) @@ (<<"b","o","x","S","h","a","d","o","w">> :> shadow) :
      color \in FrameBackgrounds,
      image \in UnparsableImages \cup ParsableImages,
      shadow \in UnparsableShadows \cup ParsableShadows }

FrameCalls == { [fn |-> "applyFrameStyles", style |-> style] : style \in FrameStyles }

\* a call of applyFrameStyles(frame, style) on a new frame returns or throws
applyFrameStylesCall ==
  /\ input.fn = "applyFrameStyles"
  /\ output = Pending
  /\ output' = Return(applyFrameStyles(EmptyObject, input.style))
  /\ UNCHANGED <<input, parserVars, captureVars, dom, mapperVars>>

InitFrame == Calling(FrameCalls)

NextFrame == applyFrameStylesCall

SpecFrame == InitFrame /\ [][NextFrame]_vars

StylesApplied == input.fn = "applyFrameStyles" /\ output.done

NoGradientFill(props) ==
  /\ Has(props, "fills")
  /\ \A i \in 1..Len(props["fills"]) : props["fills"][i].type = "SOLID"

OmittedFor(gradients, shadows) ==
  /\ ~output.value.threw
  /\ input.style[<<"b","a","c","k","g","r","o","u","n","d","I","m","a","g","e">>] \in gradients => NoGradientFill(output.value.props)
  /\ input.style[<<"b","o","x","S","h","a","d","o","w">>] \in shadows => ~Has(output.value.props, "effects")

\* C14: applyFrameStyles completes for every background-image and box-shadow;
\* a background-image that cannot be parsed leaves the solid or empty fill of
\* the background colour, a box-shadow that cannot be parsed leaves no effect
C14_NeverThrows ==
  StylesApplied => OmittedFor(UnparsableImages, UnparsableShadows)

\* the same for the gradients whose stops name no property of Object.prototype
C14_ExceptPrototypeKeys ==
  (StylesApplied /\ input.style[<<"b","a","c","k","g","r","o","u","n","d","I","m","a","g","e">>] \notin PrototypeKeyImages) =>
    OmittedFor(UnparsableImages, UnparsableShadows)


\* ------------------------------------------------- HTMLParser.parse ------

\* the greatest number of img elements in the markup handed to parse
MaxImages == 3

\* the body the markup renders into: n images
ParsedBody(n) ==
  Element(<<"B","O","D","Y">>, <<"i","d">> :> <<"r","o","o","t">>, Style(EmptyObject), Rect(Num(0), Num(0), Num(100), Num(50)),
          [i \in 1..n |-> Element(<<"I","M","G">>, <<"i","d">> :> IdAt(i, <<>>), Style(EmptyObject), Shown, <<>>)])

\* Promise.all(imagePromises) is fulfilled with every promise in a state
\* other than pending, at once when it is all of one
SomeSettled(imgs) == imgs = <<>> \/ \E i \in 1..Len(imgs) : imgs[i] # "pending"

\* waitForLoad, line 110: Promise.all(imagePromises) is fulfilled
AllSettled(imgs) == \A i \in 1..Len(imgs) : imgs[i] # "pending"

\* waitForLoad, lines 110-113: the settle delay starts once every image promise
\* is fulfilled
Waiting(imgs) == IF AllSettled(imgs) THEN "settling" ELSE "loading"

\* parse, line 16, createSandboxIframe: the iframe is put into the UI document
createSandboxIframe ==
  /\ parsePc = "idle"
  /\ parsePc' = "creating"
  /\ iframe' = TRUE
  /\ steps' = Append(steps, "created")
  /\ UNCHANGED <<images, translatorVars, captureVars, dom, mapperVars>>

WrittenImages(n, complete) ==
  [i \in 1..n |-> IF complete[i] THEN "complete" ELSE "pending"]

\* parse, lines 17-33, after the 50 ms of createSandboxIframe: the markup is
\* written and waitForLoad makes a promise for each img, fulfilled already
\* for those that are complete
writeDocument(n, complete) ==
  /\ parsePc = "creating"
  /\ live' = ParsedBody(n)
  /\ images' = WrittenImages(n, complete)
  /\ steps' = Append(steps, "injected")
  /\ parsePc' = Waiting(WrittenImages(n, complete))
  /\ UNCHANGED <<iframe, translatorVars, via, dom, mapperVars>>

\* waitForLoad, lines 104-106: onload, onerror or the 3000 ms timeout of an
\* image that is pending; a later event of the same image changes nothing
imageSettled(i, how) ==
  /\ parsePc = "loading"
  /\ i \in 1..Len(images)
  /\ images[i] = "pending"
  /\ images' = [images EXCEPT ![i] = how]
  /\ steps' = Append(steps, "image")
  /\ parsePc' = Waiting([images EXCEPT ![i] = how])
  /\ UNCHANGED <<iframe, translatorVars, captureVars, dom, mapperVars>>

\* waitForLoad, line 112, and parse, lines 35-43: the 200 ms are over, the
\* body is serialized, the iframe removed, the snapshot returned
settled ==
  /\ parsePc = "settling"
  /\ steps' = steps \o <<"settled", "serialized", "destroyed">>
  /\ dom' = serializeDOM(live)
  /\ via' = "parser"
  /\ iframe' = FALSE
  /\ parsePc' = "done"
  /\ UNCHANGED <<images, translatorVars, live, mapperVars>>

InitParse ==
  /\ live = NoDocument
  /\ via = "none"
  /\ dom = NotCaptured
  /\ MapperIdle
  /\ TranslatorsIdle
  /\ ParserIdle

NextParse ==
  \/ createSandboxIframe
  \/ \E n \in 0..MaxImages : \E complete \in [1..n -> BOOLEAN] : writeDocument(n, complete)
  \/ \E i \in 1..MaxImages : \E how \in {"loaded", "errored", "timedOut"} :
       imageSettled(i, how)
  \/ settled

SpecParse == InitParse /\ [][NextParse]_vars

\* the steps of a parse in their order; the images settle between the
\* injection and the end of the settle delay
StepRank ==
  [s \in {"created", "injected", "image", "settled", "serialized", "destroyed"} |->
     CASE s = "created" -> 1 [] s = "injected" -> 2 [] s = "image" -> 3
       [] s = "settled" -> 4 [] s = "serialized" -> 5 [] s = "destroyed" -> 6]

InOrder ==
  \A i \in 1..Len(steps) : \A j \in (i + 1)..Len(steps) :
    \/ StepRank[steps[i]] < StepRank[steps[j]]
    \/ steps[i] = "image" /\ steps[j] = "image"

Took(step) == \E i \in 1..Len(steps) : steps[i] = step

NoneSkipped ==
  /\ Took("injected") => Took("created")
  /\ Took("image") => Took("injected")
  /\ Took("settled") => Took("injected")
  /\ Took("serialized") => Took("settled")
  /\ Took("destroyed") => Took("serialized")

NonePending == "pending" \notin {images[i] : i \in 1..Len(images)}

\* C15: a parse creates the sandbox, injects the markup, sees every image
\* loaded, failed or timed out, lets the settle delay pass, serializes the DOM
\* and removes the sandbox, in this order; nothing is serialized while an
\* image is pending, and the sandbox is in place from its creation until the
\* serialization is over
C15_ParseOrder ==
  /\ InOrder
  /\ NoneSkipped
  /\ (Took("settled") \/ Took("serialized") \/ dom # NotCaptured) => NonePending
  /\ dom # NotCaptured => Took("serialized")
  /\ iframe = (Took("created") /\ ~Took("destroyed"))

\* a parse is over whose images were complete, loaded and timed out
C15_Witness ==
  /\ parsePc = "done"
  /\ images = <<"complete", "loaded", "timedOut">>
  /\ Len(dom.children) = 3
  /\ ~iframe

\* ------------------------------------------------- translators: gradients --

\* the first argument of a linear gradient, <<>> for none, and its angle
GradientDirections ==
  <<>> :> 180 @@ <<"4","5","d","e","g">> :> 45 @@ <<"t","o"," ","r","i","g","h","t">> :> 90 @@ <<"t","o"," ","l","e","f","t">> :> 270 @@
  <<"t","o"," ","b","o","t","t","o","m">> :> 180 @@ <<"t","o"," ","t","o","p">> :> 0

\* colours in the forms parseCSSColor knows
PlainColors == { <<"#","f","0","0">>, <<"b","l","u","e">> }

FunctionColors == { <<"r","g","b","(","2","5","5",","," ","0",","," ","0",")">>, <<"r","g","b","a","(","0",","," ","0",","," ","2","5","5",","," ","0",".","5",")">>, <<"h","s","l","(","1","2","0",","," ","1","0","0","%",","," ","5","0","%",")">> }

\* the colour arguments: a colour of every form, and a word that is no colour
GradientParts == PlainColors \cup FunctionColors \cup { <<"n","o","p","e">> }

MaxStops == 3

GradientLists == UNION { [1..n -> GradientParts] : n \in 1..MaxStops }

WrittenGradient(direction, colors) ==
  <<"l","i","n","e","a","r","-","g","r","a","d","i","e","n","t","(">>
    \o Joined((IF direction = <<>> THEN <<>> ELSE <<direction>>) \o colors, <<","," ">>)
    \o <<")">>

GradientCalls ==
  { [fn |-> "applyFrameStyles", direction |-> direction, colors |-> colors,
     style |-> (<<"b","a","c","k","g","r","o","u","n","d","C","o","l","o","r">> :> <<"r","g","b","(","0",","," ","1","2","8",","," ","0",")">>)
               @@ (<<"b","a","c","k","g","r","o","u","n","d","I","m","a","g","e">> :> WrittenGradient(direction, colors))] :
      direction \in DOMAIN GradientDirections, colors \in GradientLists }

InitGradient == Calling(GradientCalls)

SpecGradient == InitGradient /\ [][NextFrame]_vars

ValidColors(colors) == { i \in 1..Len(colors) : colors[i] # <<"n","o","p","e">> }

\* one stop per colour, in order, at even positions from 0 to 1
EvenStops(colors) ==
  [i \in 1..Len(colors) |->
     [position |-> Frac(i - 1, Len(colors) - 1),
      color |-> [r |-> parseCSSColor(colors[i]).r, g |-> parseCSSColor(colors[i]).g,
                 b |-> parseCSSColor(colors[i]).b, a |-> parseCSSColor(colors[i]).a]]]

GradientReplaces(props, direction, colors) ==
  /\ Has(props, "fills")
  /\ Len(props["fills"]) = 1
  /\ props["fills"][1].type = "GRADIENT_LINEAR"
  /\ props["fills"][1].angle = Num(GradientDirections[direction])
  /\ props["fills"][1].gradientStops = EvenStops(colors)

SolidRemains(props) ==
  /\ Has(props, "fills")
  /\ props["fills"] = <<Solid(parseCSSColor(<<"r","g","b","(","0",","," ","1","2","8",","," ","0",")">>))>>

GradientApplied(colors) ==
  /\ ~output.value.threw
  /\ IF Cardinality(ValidColors(colors)) < 2
       THEN SolidRemains(output.value.props)
       ELSE GradientReplaces(output.value.props, input.direction, colors)

\* the colours are all valid or fewer than two of them are
Decided(colors) ==
  Cardinality(ValidColors(colors)) < 2 \/ Cardinality(ValidColors(colors)) = Len(colors)

\* C24: a linear gradient with an optional angle or side and at least two
\* valid colours, in any form parseCSSColor knows (rgb(), rgba() and hsl()
\* with their commas and parentheses included), replaces the solid fill by
\* one gradient fill with a stop per colour, in order, at even positions
\* from 0 to 1; with fewer than two valid colours the solid fill remains
C24_Gradients ==
  (StylesApplied /\ Decided(input.colors)) => GradientApplied(input.colors)

\* the same for the gradients that are written without a parenthesis inside
C24_ExceptFunctionColors ==
  (StylesApplied /\ Decided(input.colors)
   /\ \A i \in 1..Len(input.colors) : input.colors[i] \notin FunctionColors) =>
    GradientApplied(input.colors)

\* ------------------------------------------------- the Mapper: leaf text ---

TextFrames(r) == {n \in 1..Len(nodes[r]) : nodes[r][n].role = "textFrame"}

\* the contents of the Text children of an element, in document order
Contents(el) == [i \in 1..Len(el.children) |-> el.children[i].content]

\* the frame has exactly one child, a text with the given content
OneText(h, n, content) ==
  /\ Len(h[n].children) = 1
  /\ h[h[n].children[1]].kind = "TEXT"
  /\ Has(h[h[n].children[1]].props, "characters")
  /\ h[h[n].children[1]].props["characters"] = content

PaddedLike(props, p) ==
  /\ Has(props, "paddingTop") /\ props["paddingTop"] = p[1]
  /\ Has(props, "paddingRight") /\ props["paddingRight"] = p[2]
  /\ Has(props, "paddingBottom") /\ props["paddingBottom"] = p[3]
  /\ Has(props, "paddingLeft") /\ props["paddingLeft"] = p[4]

\* vertical auto-layout, the element's padding and one text
VerticalWithText(r, n) ==
  /\ Has(nodes[r][n].props, "layoutMode") /\ nodes[r][n].props["layoutMode"] = "VERTICAL"
  /\ Has(nodes[r][n].props, "layoutSizingHorizontal")
  /\ nodes[r][n].props["layoutSizingHorizontal"] = "FIXED"
  /\ PaddedLike(nodes[r][n].props, Paddings(Source(nodes[r][n]).computedStyle))
  /\ OneText(nodes[r], n, Joined(Contents(Source(nodes[r][n])), <<" ">>))

HugsHeight(props) ==
  Has(props, "layoutSizingVertical") /\ props["layoutSizingVertical"] = "HUG"

\* the leaf text frame lies in a frame on which Auto-Layout Inference ran
InFlexFrame(r, n) ==
  /\ nodes[r][n].parent # 0
  /\ IsFlex(Source(nodes[r][nodes[r][n].parent]).computedStyle)

\* C26: every leaf text container of the tree a run returned has vertical
\* auto-layout, hug-height and fixed-width sizing, the four paddings of its
\* element and exactly one text child, whose content is the contents of the
\* element's Text children joined by single spaces
C26_LeafTextContainers ==
  \A r \in Runs : pc[r] = "done" =>
    \A n \in TextFrames(r) : VerticalWithText(r, n) /\ HugsHeight(nodes[r][n].props)

\* the same, but for the height of a leaf text container in a flex frame,
\* which is fixed
C26_ExceptInFlexFrames ==
  \A r \in Runs : pc[r] = "done" =>
    \A n \in TextFrames(r) :
      /\ VerticalWithText(r, n)
      /\ IF InFlexFrame(r, n) THEN FixedOnBothAxes(nodes[r][n].props)
         ELSE HugsHeight(nodes[r][n].props)

\* ------------------------------------------------- HTMLParser.parse: the surface

\* the greatest number of calls of parse on one parser
MaxParses == 2

\* the calls of parse that have begun
Parses == Len(SelectSeq(steps, LAMBDA s : s = "created"))

\* parse, line 16, called on a parser whose earlier parse is over:
\* createSandboxIframe, lines 74-76, removes the iframe the parser holds and
\* puts a new one into the UI document
parseAgain ==
  /\ parsePc \in {"done", "threw"}
  /\ Parses < MaxParses
  /\ parsePc' = "creating"
  /\ iframe' = TRUE
  /\ images' = <<>>
  /\ steps' = steps \o (IF iframe THEN <<"destroyed">> ELSE <<>>) \o <<"created">>
  /\ UNCHANGED <<translatorVars, captureVars, dom, mapperVars>>

\* parse, lines 17-27: iframe.contentDocument is null, so writing the markup
\* throws a TypeError that leaves parse; nothing catches it
documentFailed ==
  /\ parsePc = "creating"
  /\ parsePc' = "threw"
  /\ steps' = Append(steps, "threw")
  /\ UNCHANGED <<iframe, images, translatorVars, captureVars, dom, mapperVars>>

\* parse, line 36, and serializeDOM, line 119: doc.defaultView is null after
\* the settle delay, so getComputedStyle throws a TypeError that leaves parse
serializeFailed ==
  /\ parsePc = "settling"
  /\ parsePc' = "threw"
  /\ steps' = steps \o <<"settled", "threw">>
  /\ UNCHANGED <<iframe, images, translatorVars, captureVars, dom, mapperVars>>

NextSurface ==
  \/ NextParse
  \/ parseAgain
  \/ documentFailed
  \/ serializeFailed

SpecSurface == InitParse /\ [][NextSurface]_vars

\* the iframes in the UI document: those put in and not removed
Attached ==
  Len(SelectSeq(steps, LAMBDA s : s = "created"))
    - Len(SelectSeq(steps, LAMBDA s : s = "destroyed"))

ParseOver == parsePc \in {"done", "threw"}

\* C30: when a parse is over, whether it returned or threw, its iframe is out
\* of the UI document and the parser holds none; a parser never has more
\* than one iframe in the UI document
C30_SurfaceRemoved ==
  /\ ParseOver => (Attached = 0 /\ ~iframe)
  /\ Attached <= 1

\* the same of the parses that return: a parse that threw leaves its iframe
\* in the UI document, held by the parser, until the next parse removes it
C30_RemovedOnReturn ==
  /\ parsePc = "done" => (Attached = 0 /\ ~iframe)
  /\ parsePc = "threw" => (Attached = 1 /\ iframe)
  /\ Attached <= 1
  /\ iframe <=> Attached = 1

\* a second parse on a parser whose first parse threw has returned
C30_AfterThrow ==
  /\ parsePc = "done"
  /\ Parses = 2
  /\ \E i \in 1..Len(steps) : steps[i] = "threw"

====
